---- MODULE Spec2Model ----
(***************************************************************************)
(* A model of shortscan (github.com/bitquark/shortscan): the retrying      *)
(* fetch, the Scan driver (URL queue, preflight, vulnerability probe,      *)
(* character discovery), the concurrent enumerate tasks with their pool,   *)
(* wait-group and locks, and the autocomplete resolver.                    *)
(*                                                                         *)
(* Strings are sequences of one-character strings, so that escaping,       *)
(* prefixes, suffixes and wildcard matching are computed, not assumed.     *)
(***************************************************************************)
EXTENDS Integers, Sequences, FiniteSets, TLC

VARIABLES
    fx,            \* the name of the fixture of the run
    args,          \* the command-line arguments (args.Autocomplete is rewritten by Scan)
    urls,          \* Scan's URL queue
    pc,            \* Scan's position
    url,           \* Scan's current URL
    ac,            \* the attackConfig of the current URL
    mk,            \* the markers, carried over from one URL to the next
    lp,            \* Scan's loop locals (suffix, method, counters, statusNeg, statusPos)
    waiting,       \* enumerate goroutines blocked on the pool semaphore, in spawn order
    running,       \* enumerate goroutines that hold a pool slot, with their locals
    sem,           \* number of slots taken in the pool semaphore channel
    wg,            \* the wait-group counter
    locks,         \* holders of autocompleteMutex, distanceMutex and the wordlist lock
    statusCache,   \* extension -> statuses sampled from non-existent URLs
    distanceCache, \* extension -> status -> distances
    out,           \* everything printed so far (status events and results)
    hist,          \* history of the run: requests issued per scan, scan order, delays
    ft,            \* the locals of one call of fetch (its own specification)
    ld,            \* the wordlist file and the locals of Run's loop that reads it
    ut             \* one run of shortutil, or one call of a function of the packages:
                   \* the arguments, the locals, what is printed and what is returned

vars == <<fx, args, urls, pc, url, ac, mk, lp, waiting, running, sem, wg, locks,
          statusCache, distanceCache, out, hist, ft, ld, ut>>

scanVars == <<fx, args, urls, pc, url, ac, mk, lp, waiting, running, sem, wg, locks,
              statusCache, distanceCache, out, hist>>

----------------------------------------------------------------------------
(* Bounds of the model *)

\* how many waiting goroutines the scheduler may pass over, in a run, when
\* it hands a pool slot to one that has not waited longest
MaxDelays == 1

\* the largest value of args.Concurrency that is explored
MaxConcurrency == 2

\* the bytes of a response body that are kept: the code reads the first 1024
\* into a zeroed buffer, the model the first MaxBody
MaxBody == 3

\* the longest host and path of a URL given to Scan in SpecUrl
MaxUrlLen == 5

\* the most lines of a wordlist file in SpecLoad
MaxLines == 3

\* the longest filename given to shortutil checksum in SpecSum, the
\* named filename apart
MaxNameLen == 3

\* the longest stem given to Gen8dot3 in SpecGen, the named stems apart
MaxStemLen == 2

\* the longest string given to Distance in SpecDistance, the named pair apart
MaxDistLen == 3

\* the most lines of a wordlist given to shortutil wordlist in SpecWords
MaxWords == 2

----------------------------------------------------------------------------
(* Strings *)

\* In the operators below an argument that is used more than once is first
\* bound to its value by a quantifier over a one-element set, so that it is
\* evaluated once wherever the operator is used (also under ENABLED).

RECURSIVE Flatten(_)
Flatten(seqs) ==
    CHOOSE r \in {IF ss = <<>> THEN <<>> ELSE Head(ss) \o Flatten(Tail(ss)) :
                    ss \in {seqs}} : TRUE

Range(s) == {s[i] : i \in DOMAIN s}

HasPrefix(s, p) == Len(p) <= Len(s) /\ SubSeq(s, 1, Len(p)) = p

HasSuffix(s, p) == Len(p) <= Len(s) /\ SubSeq(s, Len(s) - Len(p) + 1, Len(s)) = p

TrimSuffix(s, p) == IF HasSuffix(s, p) THEN SubSeq(s, 1, Len(s) - Len(p)) ELSE s

Contains(s, p) == \E i \in 0..(Len(s) - Len(p)) : SubSeq(s, i + 1, i + Len(p)) = p

UpperLetters == <<"A","B","C","D","E","F","G","H","I","J","K","L","M",
                  "N","O","P","Q","R","S","T","U","V","W","X","Y","Z">>

LowerLetters == <<"a","b","c","d","e","f","g","h","i","j","k","l","m",
                  "n","o","p","q","r","s","t","u","v","w","x","y","z">>

ToLowerChar(c) ==
    IF \E i \in DOMAIN UpperLetters : UpperLetters[i] = c
    THEN LowerLetters[CHOOSE i \in DOMAIN UpperLetters : UpperLetters[i] = c]
    ELSE c

ToUpperChar(c) ==
    IF \E i \in DOMAIN LowerLetters : LowerLetters[i] = c
    THEN UpperLetters[CHOOSE i \in DOMAIN LowerLetters : LowerLetters[i] = c]
    ELSE c

ToLower(s) == [i \in DOMAIN s |-> ToLowerChar(s[i])]

ToUpper(s) == [i \in DOMAIN s |-> ToUpperChar(s[i])]

\* net/url QueryEscape: the characters it escapes, with their escapes
EscapeTable ==
    [c \in {"%", "?", "*", "(", ")", "&", "'", "!", "#", "$", "@", "^", "{", "}", "+", "/"} |->
        CASE c = "%" -> <<"%","2","5">>
          [] c = "?" -> <<"%","3","F">>
          [] c = "*" -> <<"%","2","A">>
          [] c = "(" -> <<"%","2","8">>
          [] c = ")" -> <<"%","2","9">>
          [] c = "&" -> <<"%","2","6">>
          [] c = "'" -> <<"%","2","7">>
          [] c = "!" -> <<"%","2","1">>
          [] c = "#" -> <<"%","2","3">>
          [] c = "$" -> <<"%","2","4">>
          [] c = "@" -> <<"%","4","0">>
          [] c = "^" -> <<"%","5","E">>
          [] c = "{" -> <<"%","7","B">>
          [] c = "}" -> <<"%","7","D">>
          [] c = "+" -> <<"%","2","B">>
          [] c = "/" -> <<"%","2","F">>]

QueryEscapeChar(c) ==
    IF c = " " THEN <<"+">>
    ELSE IF c \in DOMAIN EscapeTable THEN EscapeTable[c]
    ELSE <<c>>

QueryEscape(str) ==
    CHOOSE r \in {Flatten([i \in DOMAIN s |-> QueryEscapeChar(s[i])]) : s \in {str}} : TRUE

\* pathEscape: QueryEscape with every "+" replaced by "%20"
pathEscape(s) ==
    CHOOSE r \in {Flatten([i \in DOMAIN q |->
                              IF q[i] = "+" THEN <<"%","2","0">> ELSE <<q[i]>>]) :
                    q \in {QueryEscape(s)}} : TRUE

----------------------------------------------------------------------------
(* Fixtures: arguments, wordlist store and target server of a run *)

HostH == <<"h">>

UrlH == <<"h","t","t","p","s",":","/","/","h","/">>

UrlG == <<"h","t","t","p",":","/","/","g","/">>

PosAll(s) == [d \in {"0","1","2","3","4"} |-> s]

NoDir == [aliases |-> {}, names |-> {}, dirnames |-> {}]

Record(checksums, filename, extension, filename83, extension83) ==
    [checksums |-> checksums, filename |-> filename, extension |-> extension,
     filename83 |-> filename83, extension83 |-> extension83]

PlainWordlist(records) == [isRainbow |-> FALSE, wordlist |-> records]

Args(u, autocomplete, norecurse, patience, characters) ==
    [Urls |-> u, Autocomplete |-> autocomplete, NoRecurse |-> norecurse,
     IsVuln |-> FALSE, Patience |-> patience, Stabilise |-> FALSE,
     Characters |-> characters, Concurrency |-> 1]

Iis(pairs, pos, neg, dirs, m405) ==
    [kind |-> "iis", same |-> 0, pairs |-> pairs, pos |-> pos, neg |-> neg,
     other |-> 400, dirs |-> dirs, m405 |-> m405, plain |-> {}, missing |-> {404},
     page |-> <<"y","e","s">>, nopage |-> <<"n","o">>]

\* a server that answers 200 to every request
FxSame(patience) ==
    [name |-> IF patience = 0 THEN "same" ELSE "patient", flaky |-> 0,
     srv |-> [kind |-> "same", same |-> 200, pairs |-> {}, pos |-> PosAll(200),
              neg |-> 200, other |-> 200, dirs |-> [u \in {} |-> NoDir],
              m405 |-> FALSE, plain |-> {}, missing |-> {200},
              page |-> <<"y","e","s">>, nopage |-> <<"y","e","s">>],
     wordlist |-> PlainWordlist(<<>>),
     args |-> Args(<<HostH>>, "auto", FALSE, patience, <<"A","B">>)]

SecretAlias == <<"S","E","C","R","E","T","~","1",".","T","X","T">>

SecretsTxt == Record(<<>>, <<"s","e","c","r","e","t","s">>, <<".","t","x","t">>,
                     <<"S","E","C","R","E","T">>, <<"T","X","T">>)

\* a wordlist entry with the same 8.3 form, of a file that does not exist
SecretTxt == Record(<<>>, <<"s","e","c","r","e","t">>, <<".","t","x","t">>,
                    <<"S","E","C","R","E","T">>, <<"T","X","T">>)

\* one hidden alias SECRET~1.TXT of the file secrets.txt; 200 for a
\* wildcard that matches it and 404 for every other request
FxSecret ==
    [name |-> "secret", flaky |-> 0,
     srv |-> Iis({<<"/", "OPTIONS">>}, PosAll(200), 404,
                 [u \in {UrlH} |->
                    [aliases |-> {SecretAlias},
                     names |-> {<<"s","e","c","r","e","t","s",".","t","x","t">>},
                     dirnames |-> {}]],
                 FALSE),
     wordlist |-> PlainWordlist(<<SecretTxt, SecretsTxt>>),
     args |-> Args(<<HostH>>, "status", FALSE, 0, <<"S","E","C","R","T","X","%">>)]

RecA == Record(<<>>, <<"a">>, <<>>, <<"A">>, <<>>)

RecAb == Record(<<>>, <<"a","b">>, <<>>, <<"A","B">>, <<>>)

RecB == Record(<<>>, <<"b">>, <<>>, <<"B">>, <<>>)

UrlHab == UrlH \o <<"a","b","/">>

\* directories Ab (alias AB~1) and B (alias B~1), a directory A (alias
\* A~1) inside Ab, and a second URL behind the first in the queue
FxDirs ==
    [name |-> "dirs", flaky |-> 0,
     srv |-> Iis({<<"", "GET">>}, PosAll(404), 400,
                 [u \in {UrlH, UrlHab, UrlHab \o <<"a","/">>,
                         UrlH \o <<"b","/">>, UrlG} |->
                    IF u = UrlH
                    THEN [aliases |-> {<<"A","B","~","1">>, <<"B","~","1">>},
                          names |-> {}, dirnames |-> {<<"A","b">>, <<"B">>}]
                    ELSE IF u = UrlHab
                    THEN [aliases |-> {<<"A","~","1">>}, names |-> {},
                          dirnames |-> {<<"A">>}]
                    ELSE NoDir],
                 TRUE),
     wordlist |-> PlainWordlist(<<RecA, RecAb, RecB>>),
     args |-> Args(<<HostH, UrlG>>, "auto", FALSE, 0, <<"A","B">>)]

\* two aliases A~1 and A~2 that both resolve to the wordlist entry a, a
\* directory; recursion is switched off
FxTwins ==
    [name |-> "twins", flaky |-> 0,
     srv |-> Iis({<<"/", "OPTIONS">>}, PosAll(404), 400,
                 [u \in {UrlH} |->
                    [aliases |-> {<<"A","~","1">>, <<"A","~","2">>},
                     names |-> {}, dirnames |-> {<<"a">>}]],
                 TRUE),
     wordlist |-> PlainWordlist(<<RecA>>),
     args |-> Args(<<HostH>>, "method", TRUE, 0, <<"A">>)]

\* a file a (alias A~1) on a server that answers 200 to a request for a
\* missing file, with another body than that of the file
FxSoft ==
    [name |-> "soft", flaky |-> 0,
     srv |-> [Iis({<<"/", "OPTIONS">>}, PosAll(404), 400,
                  [u \in {UrlH} |->
                     [aliases |-> {<<"A","~","1">>}, names |-> {<<"a">>},
                      dirnames |-> {}]],
                  FALSE) EXCEPT !.missing = {200}],
     wordlist |-> PlainWordlist(<<RecA>>),
     args |-> Args(<<HostH>>, "distance", TRUE, 0, <<"A">>)]

\* a directory Ab (alias AB~1) behind a connection that fails once, at any
\* request of the run; no autocomplete
FxFlaky ==
    [name |-> "flaky", flaky |-> 1,
     srv |-> Iis({<<"/", "OPTIONS">>}, PosAll(404), 400,
                 [u \in {UrlH} |->
                    [aliases |-> {<<"A","B","~","1">>}, names |-> {},
                     dirnames |-> {<<"A","b">>}]],
                 TRUE),
     wordlist |-> PlainWordlist(<<RecAb>>),
     args |-> Args(<<HostH>>, "none", FALSE, 0, <<"A","B">>)]

\* a URL with a control character in it
FxCtl ==
    [name |-> "ctl", flaky |-> 0,
     srv |-> Iis({<<"/", "OPTIONS">>}, PosAll(404), 400, [u \in {} |-> NoDir], TRUE),
     wordlist |-> PlainWordlist(<<>>),
     args |-> Args(<< <<"h","\t">> >>, "auto", FALSE, 0, <<"A">>)]

\* two servers: the first answers 405 to the method _ and has no short
\* names, the second has a file a (alias A~1) and answers 404 to the method _
FxMixed ==
    [name |-> "mixed", flaky |-> 0,
     srv |-> [Iis({<<"/", "OPTIONS">>}, PosAll(404), 400,
                  [u \in {UrlH, UrlG} |->
                     IF u = UrlG
                     THEN [aliases |-> {<<"A","~","1">>}, names |-> {<<"a">>},
                           dirnames |-> {}]
                     ELSE NoDir],
                  TRUE) EXCEPT !.plain = {UrlG}],
     wordlist |-> PlainWordlist(<<RecA>>),
     args |-> Args(<<HostH, UrlG>>, "auto", TRUE, 0, <<"A">>)]

\* a vulnerability check only, of a URL with a short name and of one without
FxVuln ==
    [name |-> "isvuln", flaky |-> 0,
     srv |-> Iis({<<"/", "OPTIONS">>}, PosAll(404), 400,
                 [u \in {UrlH, UrlG} |->
                    IF u = UrlH
                    THEN [aliases |-> {<<"A","~","1">>}, names |-> {<<"a">>},
                          dirnames |-> {}]
                    ELSE NoDir],
                 FALSE),
     wordlist |-> PlainWordlist(<<RecA>>),
     args |-> [Args(<<HostH, UrlG>>, "status", FALSE, 0, <<"A">>)
                  EXCEPT !.IsVuln = TRUE]]

RecUpperA == Record(<<>>, <<"A">>, <<>>, <<"A">>, <<>>)

\* two aliases A~1 and A~2 of the files a and A0, two wordlist entries a
\* and A with the 8.3 form A, status mode, and a connection that fails
\* twice, at any requests of the run
FxDrop ==
    [name |-> "drop", flaky |-> 2,
     srv |-> Iis({<<"/", "OPTIONS">>}, PosAll(404), 400,
                 [u \in {UrlH} |->
                    [aliases |-> {<<"A","~","1">>, <<"A","~","2">>},
                     names |-> {<<"a">>}, dirnames |-> {}]],
                 FALSE),
     wordlist |-> PlainWordlist(<<RecA, RecUpperA>>),
     args |-> Args(<<HostH>>, "status", TRUE, 0, <<"A">>)]

\* a vulnerability check with patience 1 of a server that gives its short
\* names away under the sixth suffix and the tenth method only
FxPatient ==
    [name |-> "asmx", flaky |-> 0,
     srv |-> Iis({<<"/.asmx", "ACL">>}, PosAll(404), 400,
                 [u \in {UrlH} |->
                    [aliases |-> {<<"A","~","1">>}, names |-> {<<"a">>},
                     dirnames |-> {}]],
                 FALSE),
     wordlist |-> PlainWordlist(<<RecA>>),
     args |-> [Args(<<HostH>>, "status", FALSE, 1, <<"A">>) EXCEPT !.IsVuln = TRUE]]

\* a file %ab.%b (alias %AB~1.%B): a percent sign in the stem and in the
\* extension; no autocomplete
FxPercent ==
    [name |-> "percent", flaky |-> 0,
     srv |-> Iis({<<"/", "OPTIONS">>}, PosAll(404), 400,
                 [u \in {UrlH} |->
                    [aliases |-> {<<"%","A","B","~","1",".","%","B">>},
                     names |-> {<<"%","a","b",".","%","b">>}, dirnames |-> {}]],
                 FALSE),
     wordlist |-> PlainWordlist(<<>>),
     args |-> Args(<<HostH>>, "none", TRUE, 0, <<"A","%","B">>)]

\* two files a (alias A~1) and ab (alias AB~1) in one directory: a short
\* name that extends another; no autocomplete
FxNested ==
    [name |-> "nested", flaky |-> 0,
     srv |-> Iis({<<"/", "OPTIONS">>}, PosAll(404), 400,
                 [u \in {UrlH} |->
                    [aliases |-> {<<"A","~","1">>, <<"A","B","~","1">>},
                     names |-> {<<"a">>, <<"a","b">>}, dirnames |-> {}]],
                 FALSE),
     wordlist |-> PlainWordlist(<<>>),
     args |-> Args(<<HostH>>, "none", TRUE, 0, <<"A","B">>)]

\* a rainbow table, as the loader keeps it
RainbowWordlist(records) == [isRainbow |-> TRUE, wordlist |-> records]

\* the rainbow table entry of a file XAZ whose checksummed alias is XAAAAA~1
RecXaz == Record(<<"A","A","A","A","0","1","2","3">>, <<"X","A","Z">>, <<>>,
                 <<"X","A","Z">>, <<>>)

\* a file xaaaaxes (alias XAAAAX~1) and a rainbow table; status mode
FxLoose ==
    [name |-> "loose", flaky |-> 0,
     srv |-> Iis({<<"/", "OPTIONS">>}, PosAll(404), 400,
                 [u \in {UrlH} |->
                    [aliases |-> {<<"X","A","A","A","A","X","~","1">>},
                     names |-> {<<"x","a","a","a","a","x","e","s">>}, dirnames |-> {}]],
                 FALSE),
     wordlist |-> RainbowWordlist(<<RecXaz>>),
     args |-> Args(<<HostH>>, "status", TRUE, 0, <<"A","X">>)]

\* the rainbow table entry of the word aaaaaaafq: the checksums of its
\* case variants, of which AAAA is one, and the 8.3 form AAAAAA
RecAfq == Record(<<"3","A","5","6","A","A","A","A","A","4","B","0">>,
                 <<"A","A","A","A","A","A","A","F","Q">>, <<>>,
                 <<"A","A","A","A","A","A">>, <<>>)

\* a file aaaaaaxyz (alias AAAAAA~1) and a rainbow table with the word
\* aaaaaaafq, which is not on the server; status mode
FxSum ==
    [name |-> "sum", flaky |-> 0,
     srv |-> Iis({<<"/", "OPTIONS">>}, PosAll(404), 400,
                 [u \in {UrlH} |->
                    [aliases |-> {<<"A","A","A","A","A","A","~","1">>},
                     names |-> {<<"a","a","a","a","a","a","x","y","z">>},
                     dirnames |-> {}]],
                 FALSE),
     wordlist |-> RainbowWordlist(<<RecAfq>>),
     args |-> Args(<<HostH>>, "status", TRUE, 0, <<"A">>)]

\* the server of FxSoft behind a connection that fails twice, at any
\* requests of the run; distance mode
FxThin == [FxSoft EXCEPT !.name = "thin", !.flaky = 2]

\* a file %aaa%a.%aa (alias %AAA%A~1.%AA): a stem of 6 and an extension
\* of 3 characters, with percent signs at the start and further on
FxDeep ==
    [name |-> "deep", flaky |-> 0,
     srv |-> Iis({<<"/", "OPTIONS">>}, PosAll(404), 400,
                 [u \in {UrlH} |->
                    [aliases |-> {<<"%","A","A","A","%","A","~","1",".","%","A","A">>},
                     names |-> {<<"%","a","a","a","%","a",".","%","a","a">>},
                     dirnames |-> {}]],
                 FALSE),
     wordlist |-> PlainWordlist(<<>>),
     args |-> Args(<<HostH>>, "none", TRUE, 0, <<"A","%">>)]

\* files a (alias A~1) and a0 (alias A~2) on a server that answers a
\* wildcard that matches a short name ~2 with another status than one
\* that matches a short name ~1
FxTwoStatus ==
    [name |-> "twostatus", flaky |-> 0,
     srv |-> Iis({<<"/", "OPTIONS">>}, [PosAll(404) EXCEPT !["2"] = 403], 400,
                 [u \in {UrlH} |->
                    [aliases |-> {<<"A","~","1">>, <<"A","~","2">>},
                     names |-> {<<"a">>, <<"a","0">>}, dirnames |-> {}]],
                 FALSE),
     wordlist |-> PlainWordlist(<<>>),
     args |-> Args(<<HostH>>, "none", TRUE, 0, <<"A">>)]

Fixtures == {FxSame(0), FxSame(1), FxSecret, FxDirs, FxTwins, FxSoft,
             FxFlaky, FxCtl, FxMixed, FxVuln, FxDrop, FxPatient, FxPercent, FxNested,
             FxLoose, FxSum, FxThin, FxDeep, FxTwoStatus}

\* the fixture of the run: its arguments, wordlist store and target server
Fx == CHOOSE f \in Fixtures : f.name = fx

----------------------------------------------------------------------------
(* The target: what a server does with a request.  A request is            *)
(* [method, url, path, suffix]: the base URL, the path appended to it as   *)
(* the code built it (escaped), and the path suffix.                       *)

HexUpper(c) == IF c \in {"a","b","c","d","e","f"} THEN ToUpperChar(c) ELSE c

\* the server's percent-decoding of a path
RECURSIVE Unescape(_)
Unescape(path) ==
    CHOOSE r \in {
        IF p = <<>> THEN <<>>
        ELSE IF Head(p) = "%" /\ Len(p) >= 3
                /\ \E c \in DOMAIN EscapeTable :
                       EscapeTable[c] = <<"%", HexUpper(p[2]), HexUpper(p[3])>>
             THEN <<CHOOSE c \in DOMAIN EscapeTable :
                       EscapeTable[c] = <<"%", HexUpper(p[2]), HexUpper(p[3])>> >>
                  \o Unescape(SubSeq(p, 4, Len(p)))
        ELSE IF Head(p) = "%" /\ Len(p) >= 3 /\ p[2] = "2" /\ p[3] = "0"
             THEN <<" ">> \o Unescape(SubSeq(p, 4, Len(p)))
        ELSE <<Head(p)>> \o Unescape(Tail(p)) : p \in {path}} : TRUE

\* wildcard matching of a short name: * is any run of characters, ? is one
RECURSIVE Match(_, _)
Match(pattern, name) ==
    \E p \in {pattern} : \E s \in {name} :
        IF p = <<>> THEN s = <<>>
        ELSE IF Head(p) = "*" THEN Match(Tail(p), s) \/ (s # <<>> /\ Match(p, Tail(s)))
        ELSE IF Head(p) = "?" THEN s # <<>> /\ Match(Tail(p), Tail(s))
        ELSE s # <<>> /\ Head(p) = Head(s) /\ Match(Tail(p), Tail(s))

NoLocation == <<>>

Page(status, location, body) ==
    [err |-> FALSE, status |-> status, location |-> location, body |-> body]

Resp(status, location) == Page(status, location, <<>>)

TransportError == [err |-> TRUE, status |-> 0, location |-> NoLocation, body |-> <<>>]

\* the directory a base URL names on the server (empty when unknown)
ServerDir(srv, u) ==
    IF u \in DOMAIN srv.dirs THEN srv.dirs[u]
    ELSE [aliases |-> {}, names |-> {}, dirnames |-> {}]

\* the tilde digit of a short name, e.g. 1 for SECRET~1.TXT
TildeOf(alias) ==
    LET i == CHOOSE j \in DOMAIN alias : alias[j] = "~"
    IN  alias[i + 1]

\* the responses the server may give to a request
Respond(srv, request) ==
    UNION {
        LET wild == \E i \in DOMAIN p : p[i] \in {"*", "?", "~"}
        IN  IF srv.kind = "same" THEN {Resp(srv.same, NoLocation)}
            ELSE IF wild
            THEN IF <<req.suffix, req.method>> \notin srv.pairs
                 THEN {Resp(srv.other, NoLocation)}
                 ELSE UNION {
                        IF hits = {} THEN {Resp(srv.neg, NoLocation)}
                        ELSE {Resp(srv.pos[TildeOf(a)], NoLocation) : a \in hits} :
                        hits \in {{a \in d.aliases : Match(p, a)}}}
            ELSE UNION {
                   IF req.method = "_"
                   THEN IF srv.m405 /\ req.url \notin srv.plain /\ (p = <<>> \/ real # {})
                        THEN {Resp(405, NoLocation)}
                        ELSE {Page(s, NoLocation, srv.nopage) : s \in srv.missing}
                   ELSE IF real = {}
                   THEN {Page(s, NoLocation, srv.nopage) : s \in srv.missing}
                   ELSE {IF n \in d.dirnames
                         THEN Resp(301, req.url \o n \o <<"/">>)
                         ELSE Page(200, NoLocation, srv.page) : n \in real} :
                   real \in {{n \in d.names \cup d.dirnames : ToLower(n) = ToLower(p)}}} :
        <<req, p, d>> \in {<<q, Unescape(q.path), ServerDir(srv, q.url)>> : q \in {request}}}

----------------------------------------------------------------------------
(* fetch: one call, step by step (its own specification, SpecFetch)        *)

\* the request loop runs t = 0 .. FetchTries - 1
FetchTries == 4

\* what hc.Do may return to one attempt
DoOutcomes == {TransportError} \cup {Resp(s, NoLocation) : s \in {200, 404}}

\* a custom header splits into name and value iff it contains a colon
HeaderValid(h) == \E i \in DOMAIN h : h[i] = ":"

HeaderSets == { <<>>, << <<"X",":","1">> >>, << <<"H","o","s","t",":","v">> >>,
                << <<"X",":","1">>, <<"b","a","d">> >> }

FetchIdle ==
    [pc |-> "idle", t |-> 0, valid |-> TRUE, headers |-> <<>>,
     outcomes |-> [i \in 1..FetchTries |-> TransportError],
     res |-> TransportError, hasRes |-> FALSE, rerr |-> FALSE, attempts |-> 0,
     slept |-> 0, stats |-> [requests |-> 0, retries |-> 0], ret |-> TransportError]

\* http.NewRequest and the custom headers: a failure of either is log.Fatal
FetchNewRequest ==
    /\ ft.pc = "new"
    /\ ft' = [ft EXCEPT !.pc =
                 IF ~ft.valid THEN "fatal"
                 ELSE IF \E i \in DOMAIN ft.headers : ~HeaderValid(ft.headers[i])
                      THEN "fatal" ELSE "loop"]
    /\ UNCHANGED <<scanVars, ld, ut>>

\* the error tested after hc.Do: the loop tests err, the error of
\* http.NewRequest, which is nil whenever the loop is reached
LoopBreaks(err, rerr) == err = FALSE

\* one turn of the request loop: hc.Do, break or back off
FetchAttempt ==
    /\ ft.pc = "loop"
    /\ LET o    == ft.outcomes[ft.t + 1]
           done == LoopBreaks(FALSE, o.err)
           t2   == IF done THEN ft.t ELSE ft.t + 1
       IN  ft' = [ft EXCEPT
                    !.res = o, !.hasRes = ~o.err, !.rerr = o.err,
                    !.attempts = @ + 1,
                    !.slept = IF done THEN @ ELSE @ + ft.t * 2,
                    !.t = t2,
                    !.pc = IF done \/ t2 >= FetchTries THEN "after" ELSE "loop"]
    /\ UNCHANGED <<scanVars, ld, ut>>

\* after the loop: the last error when there is no response, else the
\* statistics and the response
FetchReturn ==
    /\ ft.pc = "after"
    /\ ft' = IF ~ft.hasRes
             THEN [ft EXCEPT !.pc = "returned", !.ret = TransportError]
             ELSE [ft EXCEPT !.pc = "returned", !.ret = ft.res,
                             !.stats = [requests |-> @.requests + 1,
                                        retries |-> @.retries + ft.t]]
    /\ UNCHANGED <<scanVars, ld, ut>>

----------------------------------------------------------------------------
(* Scan: the driver *)

httpMethods ==
    <<"OPTIONS", "HEAD", "TRACE", "DEBUG", "GET", "POST", "PUT", "PATCH", "DELETE", "ACL",
      "BASELINE-CONTROL", "BIND", "CHECKIN", "CHECKOUT", "CONNECT", "COPY", "LABEL", "LINK",
      "LOCK", "MERGE", "MKACTIVITY", "MKCALENDAR", "MKCOL", "MKREDIRECTREF", "MKWORKSPACE",
      "MOVE", "ORDERPATCH", "PRI", "PROPFIND", "PROPPATCH", "REBIND", "REPORT", "SEARCH",
      "UNBIND", "UNCHECKOUT", "UNLINK", "UNLOCK", "UPDATE", "UPDATEREDIRECTREF",
      "VERSION-CONTROL">>

pathSuffixes ==
    <<"/", "", "/.aspx", "?aspxerrorpath=/", "/.aspx?aspxerrorpath=/", "/.asmx", "/.vb">>

Digits == <<"0","1","2","3","4","5","6","7","8","9">>

DigitChar(n) == Digits[n + 1]

\* fmt.Sprintf("~%d", i)
TildeStr(i) == <<"~", DigitChar(i)>>

\* the tildes the probe can commit
AllTildes == {TildeStr(i) : i \in 1..4}

Request(method, u, path, suffix) ==
    [method |-> method, url |-> u, path |-> path, suffix |-> suffix]

\* the outcomes of fetch for a request of the scan: fetch returns what its
\* first hc.Do returned (FetchAttempt), a response or a transport error
Outcomes(req) ==
    Respond(Fx.srv, req)
        \cup (IF hist.fails < Fx.flaky THEN {TransportError} ELSE {})

\* the history after a request of the given kind got outcome r
Noted(kind, r) ==
    [hist EXCEPT !.reqs = @ \cup {kind},
                 !.fails = IF r.err THEN @ + 1 ELSE @]

\* the URL popped off the queue, with its trailing slash and scheme
Normalise(u) ==
    LET t == TrimSuffix(u, <<"/">>) \o <<"/">>
    IN  IF ~Contains(t, <<":","/","/">>)
        THEN <<"h","t","t","p","s",":","/","/">> \o t
        ELSE t

EmptyChars == [t \in AllTildes |-> <<>>]

\* attackConfig{wordlist: wc}
NewAttackConfig ==
    [method |-> "", suffix |-> "", tildes |-> <<>>,
     fileChars |-> EmptyChars, extChars |-> EmptyChars,
     foundFiles |-> {}, foundDirectories |-> {}]

NewLocals ==
    [si |-> 1, mi |-> 1, i |-> 0, statusNeg |-> 0, statusPos |-> 0,
     pass |-> 0, ci |-> 1, ti |-> 1]

\* how many suffixes and methods the probe tries
SuffixCount(a) == IF a.Patience = 1 THEN Len(pathSuffixes) ELSE 4

\* a probe that tries ten methods by default
MethodCountTen(a) == IF a.Patience = 1 THEN Len(httpMethods) ELSE 10

MethodCount(a) == IF a.Patience = 1 THEN Len(httpMethods) ELSE 9

StatusEvent(u, vulnerable) == [type |-> "status", url |-> u, vulnerable |-> vulnerable]

\* loop head: pop a URL off the queue, or finish
ScanPop ==
    /\ pc = "pop"
    /\ IF urls = <<>>
       THEN /\ pc' = "done"
            /\ UNCHANGED <<url, urls, hist, lp, ac>>
       ELSE /\ url' = Normalise(Head(urls))
            /\ urls' = Tail(urls)
            /\ hist' = [hist EXCEPT !.reqs = {}, !.scan = @ + 1, !.pairs = <<>>, !.checks = <<>>, !.tstatus = <<>>,
                                    !.order = Append(@, Normalise(Head(urls)))]
            /\ lp' = NewLocals
            /\ ac' = NewAttackConfig
            /\ pc' = "preflight"
    /\ UNCHANGED <<fx, args, mk, waiting, running, sem, wg, locks,
                   statusCache, distanceCache, out, ft, ld, ut>>

\* nurl.Parse(url) returns no error; of the URLs of the model, made of
\* letters, colons, slashes and control characters, the parser rejects
\* those that contain a control character
Parseable(u) == \A i \in DOMAIN u : u[i] \notin {"\t", "\n", "\r"}

\* pre-flight: the URL must parse and the server must answer, or the
\* process exits (log.Fatal)
ScanPreflight ==
    /\ pc = "preflight"
    /\ IF ~Parseable(url)
       THEN /\ pc' = "fatal"
            /\ UNCHANGED hist
       ELSE \E r \in Outcomes(Request("GET", url, <<".","a","s","p","x">>, "")) :
               /\ hist' = Noted("preflight", r)
               /\ pc' = IF r.err THEN "fatal" ELSE "auto"
    /\ UNCHANGED <<fx, args, urls, url, ac, mk, lp, waiting, running, sem, wg, locks,
                   statusCache, distanceCache, out, ft, ld, ut>>

\* autocomplete autoselect, then the attack config and the probe's bounds
ScanAutoselect ==
    /\ pc = "auto"
    /\ IF args.Autocomplete = "auto"
       THEN \E r \in Outcomes(Request("_", url, <<>>, "")) :
               /\ hist' = Noted("auto", r)
               /\ args' = [args EXCEPT !.Autocomplete =
                              IF ~r.err /\ r.status = 405 THEN "method" ELSE "status"]
       ELSE UNCHANGED <<hist, args>>
    /\ ac' = NewAttackConfig
    /\ lp' = NewLocals
    /\ pc' = "neg"
    /\ UNCHANGED <<fx, urls, url, mk, waiting, running, sem, wg, locks,
                   statusCache, distanceCache, out, ft, ld, ut>>

\* continue methodEscape: the next method, the next suffix, or the end of
\* both loops
NextMethod(l) ==
    IF l.mi < MethodCount(args)
    THEN [l EXCEPT !.mi = @ + 1, !.i = 0, !.statusNeg = 0]
    ELSE [l EXCEPT !.si = @ + 1, !.mi = 1, !.i = 0, !.statusNeg = 0]

PairsLeft(l) == l.si <= SuffixCount(args)

AfterSkip(l) == IF PairsLeft(NextMethod(l)) THEN "neg" ELSE "status"

\* the history after a request of the probe got outcome r: the pairs of
\* suffix and method probed for this URL are listed in the order of their
\* first request
Probed(kind, r) ==
    [Noted(kind, r) EXCEPT !.pairs = IF @ # <<>> /\ @[Len(@)] = <<lp.si, lp.mi>> THEN @
                                     ELSE Append(@, <<lp.si, lp.mi>>)]

\* one of the four requests for a file that cannot exist
ScanNegative ==
    /\ pc = "neg"
    /\ \E n \in 5..9 :
       \E r \in Outcomes(Request(httpMethods[lp.mi], url,
                                 <<"*", DigitChar(n), "*">>, pathSuffixes[lp.si])) :
          /\ hist' = Probed("neg", r)
          /\ IF r.err \/ (lp.statusNeg # 0 /\ r.status # lp.statusNeg)
             THEN /\ lp' = NextMethod(lp)
                  /\ pc' = AfterSkip(lp)
             ELSE /\ lp' = [lp EXCEPT !.statusNeg = r.status,
                                      !.i = IF lp.i = 3 THEN 1 ELSE @ + 1]
                  /\ pc' = IF lp.i = 3 THEN "pos" ELSE "neg"
    /\ UNCHANGED <<fx, args, urls, url, ac, mk, waiting, running, sem, wg, locks,
                   statusCache, distanceCache, out, ft, ld, ut>>

\* the comparison of line 907 turned round
CouldBeHitInverted(statusPos, statusNeg) == statusPos = statusNeg

\* whether a response to *~i* could be a hit
CouldBeHit(statusPos, statusNeg) == statusPos # statusNeg

\* the next *~i* request, or the end of the loop over i
AfterTilde(l) == IF l.i = 4 THEN "commit" ELSE "pos"

\* one of the four requests for files *~1* .. *~4*
ScanPositive ==
    /\ pc = "pos"
    /\ \E r \in Outcomes(Request(httpMethods[lp.mi], url,
                                 <<"*">> \o TildeStr(lp.i) \o <<"*">>, pathSuffixes[lp.si])) :
          /\ hist' = Probed("pos", r)
          /\ IF ~r.err /\ CouldBeHit(r.status, lp.statusNeg)
             THEN /\ lp' = [lp EXCEPT !.statusPos = r.status]
                  /\ pc' = "dis"
             ELSE /\ lp' = [lp EXCEPT !.i = @ + 1,
                                      !.statusPos = IF r.err THEN @ ELSE r.status]
                  /\ pc' = AfterTilde(lp)
    /\ UNCHANGED <<fx, args, urls, url, ac, mk, waiting, running, sem, wg, locks,
                   statusCache, distanceCache, out, ft, ld, ut>>

\* the *~0* request that tells a hit from rate limiting; its error is
\* dropped and its response read, so a transport failure is a nil dereference
ScanDisambiguate ==
    /\ pc = "dis"
    /\ \E r \in Outcomes(Request(httpMethods[lp.mi], url,
                                 <<"*">> \o TildeStr(0) \o <<"*">>, pathSuffixes[lp.si])) :
          /\ hist' = IF r.err \/ lp.statusPos = r.status THEN Probed("dis", r)
                      ELSE [Probed("dis", r) EXCEPT !.tstatus =
                              [x \in DOMAIN @ \cup {TildeStr(lp.i)} |->
                                 IF x = TildeStr(lp.i) THEN lp.statusPos ELSE @[x]]]
          /\ IF r.err
             THEN /\ pc' = "panic"
                  /\ UNCHANGED <<ac, mk, lp>>
             ELSE /\ IF lp.statusPos = r.status
                     THEN UNCHANGED <<ac, mk>>
                     ELSE /\ ac' = [ac EXCEPT !.tildes = Append(@, TildeStr(lp.i))]
                          /\ mk' = [statusPos |-> lp.statusPos, statusNeg |-> lp.statusNeg]
                  /\ lp' = [lp EXCEPT !.i = @ + 1]
                  /\ pc' = AfterTilde(lp)
    /\ UNCHANGED <<fx, args, urls, url, waiting, running, sem, wg, locks,
                   statusCache, distanceCache, out, ft, ld, ut>>

\* whether 8.3 files were found under the pair just probed
FoundTildes(a) == Len(a.tildes) > 0

\* after the four tilde requests: commit the pair, or try the next one
ScanCommit ==
    /\ pc = "commit"
    /\ IF FoundTildes(ac)
       THEN /\ ac' = [ac EXCEPT !.method = httpMethods[lp.mi],
                                !.suffix = pathSuffixes[lp.si]]
            /\ pc' = "status"
            /\ UNCHANGED lp
       ELSE /\ lp' = NextMethod(lp)
            /\ pc' = AfterSkip(lp)
            /\ UNCHANGED ac
    /\ UNCHANGED <<fx, args, urls, url, mk, waiting, running, sem, wg, locks,
                   statusCache, distanceCache, out, hist, ft, ld, ut>>

\* the comparison of line 945 off by one
VulnerableOffByOne(a) == Len(a.tildes) >= 0

\* the vulnerable field of the status output
Vulnerable(a) == Len(a.tildes) > 0

\* the continue of line 951 left out
SkipUrlVulnOnly(a, g) == g.IsVuln

\* the bail of line 961 left out
SkipUrlNoTildes(a, g) == Len(a.tildes) = 0

\* whether the URL is skipped after the probe
SkipUrl(a, g) == Len(a.tildes) = 0 \/ g.IsVuln

\* the status output, then skip the URL or go on to the second stage
ScanStatus ==
    /\ pc = "status"
    /\ out' = out \cup {StatusEvent(url, Vulnerable(ac))}
    /\ pc' = IF SkipUrl(ac, args) THEN "pop" ELSE "chars"
    /\ lp' = [lp EXCEPT !.pass = 0, !.ci = 1, !.ti = 1]
    /\ UNCHANGED <<fx, args, urls, url, ac, mk, waiting, running, sem, wg, locks,
                   statusCache, distanceCache, hist, ft, ld, ut>>


\* the next (pass, character, tilde) of character discovery
NextChar(l) ==
    IF l.ti < Len(ac.tildes) THEN [l EXCEPT !.ti = @ + 1]
    ELSE IF l.ci < Len(args.Characters) THEN [l EXCEPT !.ti = 1, !.ci = @ + 1]
    ELSE [l EXCEPT !.ti = 1, !.ci = 1, !.pass = @ + 1]

\* the check URL of character discovery: pass 0 is the file part, pass 1
\* the extension
CharCheckPath(pass, char, tilde) ==
    IF pass = 0
    THEN <<"*">> \o pathEscape(<<char>>) \o <<"*">> \o tilde \o <<"*">>
    ELSE <<"*">> \o tilde \o <<"*">> \o pathEscape(<<char>>) \o <<"*">>

\* whether a response enlists the character
CharHit(r, m) == ~r.err /\ r.status # m.statusNeg

\* second stage: one request of character discovery
ScanChars ==
    /\ pc = "chars"
    /\ IF Len(args.Characters) = 0 \/ Len(ac.tildes) = 0
       THEN /\ pc' = "enum"
            /\ UNCHANGED <<ac, lp, hist>>
       ELSE LET char  == args.Characters[lp.ci]
                tilde == ac.tildes[lp.ti]
            IN  \E r \in Outcomes(Request(ac.method, url,
                                          CharCheckPath(lp.pass, char, tilde), ac.suffix)) :
                   /\ hist' = Noted("chars", r)
                   /\ ac' = IF ~CharHit(r, mk) THEN ac
                            ELSE IF lp.pass = 0
                            THEN [ac EXCEPT !.fileChars[tilde] = Append(@, char)]
                            ELSE [ac EXCEPT !.extChars[tilde] = Append(@, char)]
                   /\ lp' = NextChar(lp)
                   /\ pc' = IF NextChar(lp).pass = 2 THEN "enum" ELSE "chars"
    /\ UNCHANGED <<fx, args, urls, url, mk, waiting, running, sem, wg, locks,
                   statusCache, distanceCache, out, ft, ld, ut>>

----------------------------------------------------------------------------
(* enumerate: the goroutines *)

BaseRequest(u, file, tilde, ext) == [url |-> u, file |-> file, tilde |-> tilde, ext |-> ext]

\* a walk of the wordlist: the place of getWordlist, the index of its loop,
\* the channel, and the records received from the channel so far
NoWalk == [st |-> "none", idx |-> 1, ch |-> <<>>, closed |-> FALSE, got |-> <<>>]

\* go getWordlist(ch, ac), with a fresh channel
StartWalk == [st |-> "lock", idx |-> 1, ch |-> <<>>, closed |-> FALSE, got |-> <<>>]

NewTask(br, char) ==
    [br |-> br, char |-> char, pc |-> "sem", fnr |-> <<>>, fnc |-> <<>>, ci |-> 1,
     fs |-> {}, w |-> NoWalk, res |-> TransportError, sn |-> 0, ss |-> {},
     bodies |-> <<>>, dists |-> <<>>]

\* goroutines that are not counted
AddMissed(n, k) == n

\* wg.Add(1) for each of the k goroutines that enumerate starts
Add(n, k) == n + k

\* enumerate(br): one goroutine per character of the tilde's character map
Spawn(a, br) ==
    LET chars == IF Len(br.ext) > 0 THEN a.extChars[br.tilde] ELSE a.fileChars[br.tilde]
    IN  [i \in 1..Len(chars) |-> NewTask(br, <<chars[i]>>)]

\* third stage: fresh sets, pool and wait-group, and enumerate for each tilde
ScanEnumerate ==
    /\ pc = "enum"
    /\ LET a     == [ac EXCEPT !.foundFiles = {}, !.foundDirectories = {}]
           tasks == Flatten([i \in 1..Len(ac.tildes) |->
                               Spawn(a, BaseRequest(url, <<>>, ac.tildes[i], <<>>))])
       IN  /\ ac' = a
           /\ waiting' = tasks
           /\ wg' = Add(0, Len(tasks))
           /\ sem' = 0
           /\ running' = {}
    /\ pc' = "wait"
    /\ UNCHANGED <<fx, args, urls, url, mk, lp, locks, statusCache, distanceCache,
                   out, hist, ft, ld, ut>>

\* whether wg.Wait() returns
WaitReturns(n) == n = 0

ScanWait ==
    /\ pc = "wait"
    /\ WaitReturns(wg)
    /\ pc' = "prepend"
    /\ UNCHANGED <<fx, args, urls, url, ac, mk, lp, waiting, running, sem, wg, locks,
                   statusCache, distanceCache, out, hist, ft, ld, ut>>

\* the orders in which a map can be ranged over
Orders(S) == {o \in [1..Cardinality(S) -> S] : Range(o) = S}

\* the directories put behind the queue instead
Appended(u, o, q) == q \o [i \in 1..Len(o) |-> u \o o[Len(o) + 1 - i] \o <<"/">>]

\* the queue after the directories, taken in the order o, have each been
\* put in front of it
Prepended(u, o, q) == [i \in 1..Len(o) |-> u \o o[Len(o) + 1 - i] \o <<"/">>] \o q

\* discovered directories go to the front of the queue
ScanPrepend ==
    /\ pc = "prepend"
    /\ \E o \in Orders(ac.foundDirectories) :
          /\ urls' = Prepended(url, o, urls)
          /\ hist' = [hist EXCEPT !.found = @ \cup {url \o o[i] \o <<"/">> : i \in 1..Len(o)}]
    /\ pc' = "pop"
    /\ UNCHANGED <<fx, args, url, ac, mk, lp, waiting, running, sem, wg, locks,
                   statusCache, distanceCache, out, ft, ld, ut>>

UpdateTask(t, t2) == running' = (running \ {t}) \cup {t2}

\* a pool with one slot too many
SlotFreeOffByOne(n, a) == n <= a.Concurrency

\* whether the pool semaphore accepts a send
SlotFree(n, a) == n < a.Concurrency

\* sem <- struct{}{}: the k-th waiting goroutine gets a pool slot
TaskAcquire(k) ==
    /\ pc = "wait"
    /\ k \in 1..Len(waiting)
    /\ SlotFree(sem, args)
    /\ hist.delays + (k - 1) <= MaxDelays
    /\ sem' = sem + 1
    /\ waiting' = SubSeq(waiting, 1, k - 1) \o SubSeq(waiting, k + 1, Len(waiting))
    /\ running' = running \cup {[waiting[k] EXCEPT !.pc = "probe"]}
    /\ hist' = [hist EXCEPT !.delays = @ + (k - 1)]
    /\ UNCHANGED <<fx, args, urls, pc, url, ac, mk, lp, wg, locks,
                   statusCache, distanceCache, out, ft, ld, ut>>

\* the two question marks added whatever the length of the name is
PercentCharAlways(br, char) ==
    IF char = <<"%">> THEN char \o <<"?", "?">> ELSE char

\* the workaround for the percent sign: the character with its question marks
PercentChar(br, char) ==
    IF char = <<"%">>
    THEN LET extMode == Len(br.ext) > 0
             x == IF extMode THEN Len(br.ext) ELSE Len(br.file)
             y == IF extMode THEN 1 ELSE 4
         IN  IF x < y THEN char \o <<"?", "?">> ELSE char
    ELSE char

\* the base request with the next character added
Extended(br, char) ==
    IF Len(br.ext) > 0
    THEN [br EXCEPT !.ext = @ \o PercentChar(br, char)]
    ELSE [br EXCEPT !.file = @ \o PercentChar(br, char)]

\* the initial check URL
ProbePath(extMode, br) ==
    IF extMode
    THEN pathEscape(br.file) \o br.tilde \o pathEscape(br.ext) \o <<"*">>
    ELSE pathEscape(br.file) \o <<"*">> \o br.tilde \o <<"*">> \o pathEscape(br.ext)

FullPartPath(br) == pathEscape(br.file) \o br.tilde \o <<"*">> \o pathEscape(br.ext)

CompletePath(br) == pathEscape(br.file) \o br.tilde \o pathEscape(br.ext)

DeeperPath(extMode, br) ==
    IF extMode
    THEN pathEscape(br.file) \o br.tilde \o pathEscape(br.ext) \o <<"%","3","f","*">>
    ELSE pathEscape(br.file) \o <<"%","3","f","*">> \o br.tilde \o <<"*">> \o pathEscape(br.ext)

\* whether a response to a wildcard check is the positive status
IsPos(r, m) == ~r.err /\ r.status = m.statusPos

\* whether a response is anything but the negative status
NotNeg(r, m) == ~r.err /\ r.status # m.statusNeg

\* add the next character and check whether this looks like a hit
TaskProbe(t) ==
    /\ pc = "wait" /\ t \in running /\ t.pc = "probe"
    /\ LET extMode == Len(t.br.ext) > 0
           br      == Extended(t.br, t.char)
       IN  \E r \in Outcomes(Request(ac.method, br.url, ProbePath(extMode, br), ac.suffix)) :
              /\ hist' = Noted("enum", r)
              /\ UpdateTask(t, [t EXCEPT !.br = br,
                                         !.pc = IF IsPos(r, mk) THEN "full" ELSE "exit"])
    /\ UNCHANGED <<fx, args, urls, pc, url, ac, mk, lp, waiting, sem, wg, locks,
                   statusCache, distanceCache, out, ft, ld, ut>>

\* check whether this is the full file part
TaskFull(t) ==
    /\ pc = "wait" /\ t \in running /\ t.pc = "full"
    /\ \E r \in Outcomes(Request(ac.method, t.br.url, FullPartPath(t.br), ac.suffix)) :
          /\ hist' = Noted("enum", r)
          /\ UpdateTask(t, [t EXCEPT !.pc = IF IsPos(r, mk) THEN "complete" ELSE "deeper"])
    /\ UNCHANGED <<fx, args, urls, pc, url, ac, mk, lp, waiting, sem, wg, locks,
                   statusCache, distanceCache, out, ft, ld, ut>>


IsHex(c) == c \in {"0","1","2","3","4","5","6","7","8","9","A","B","C","D","E","F"}

\* checksumRegex.MatchString: one or two characters followed by four hex
\* digits, anywhere in the string
ChecksumRegexMatch(f) ==
    \E i \in 1..Len(f) : \E k \in {1, 2} :
        /\ i + k + 3 <= Len(f)
        /\ \A j \in 0..3 : IsHex(f[i + k + j])

\* capacity of the channel a wordlist walk sends on: 1024 in the source,
\* scaled down with the wordlists, so that a wordlist with more records
\* than the channel holds is among the fixtures
ChanCap == 2

Key(rec) == rec.filename \o rec.extension

\* fs[record.filename+record.extension] = record
MapPut(fs, rec) == {r \in fs : Key(r) # Key(rec)} \cup {rec}

\* the consecutive 4-character groups record.checksums[i : i+4]
Groups(c) == {SubSeq(c, 4 * i + 1, 4 * i + 4) : i \in 0..((Len(c) - 1) \div 4)}

\* the slice checksums[i : i+4] is out of range for the last group
GroupsPanic(c) == Len(c) % 4 # 0

\* autodechecksum's test of one record
DechecksumMatch(br, rec) ==
    LET l        == 2 - (6 - Len(br.file))
        prefix   == SubSeq(br.file, 1, l)
        checksum == SubSeq(br.file, l + 1, Len(br.file))
    IN  /\ checksum \in Groups(rec.checksums)
        /\ HasPrefix(ToUpper(rec.filename), prefix)
        /\ HasPrefix(ToUpper(rec.extension), br.ext)

\* autocomplete's test of one record
WordlistMatch(br, rec) ==
    /\ br.file = rec.filename83
    /\ SubSeq(br.ext, (IF Len(br.ext) < 1 THEN Len(br.ext) ELSE 1) + 1, Len(br.ext))
          = rec.extension83

\* the complete-name check; a hit starts the candidate lookup
TaskComplete(t) ==
    /\ pc = "wait" /\ t \in running /\ t.pc = "complete"
    /\ \E r \in Outcomes(Request(ac.method, t.br.url, CompletePath(t.br), ac.suffix)) :
          /\ hist' = Noted("enum", r)
          /\ IF NotNeg(r, mk)
             THEN /\ UpdateTask(t,
                       IF args.Autocomplete = "none" THEN [t EXCEPT !.pc = "emit"]
                       ELSE IF Fx.wordlist.isRainbow /\ ChecksumRegexMatch(t.br.file)
                       THEN [t EXCEPT !.pc = "dechk", !.w = StartWalk, !.fs = {}]
                       ELSE [t EXCEPT !.pc = "walk", !.w = StartWalk, !.fs = {}])
                  /\ UNCHANGED <<waiting, wg>>
             ELSE \* no hit: kick off file extension discovery
                  LET kids == IF Len(t.br.ext) = 0
                              THEN Spawn(ac, [t.br EXCEPT !.ext = <<".">>]) ELSE <<>>
                  IN  /\ UpdateTask(t, [t EXCEPT !.pc = "deeper"])
                      /\ waiting' = waiting \o kids
                      /\ wg' = Add(wg, Len(kids))
    /\ UNCHANGED <<fx, args, urls, pc, url, ac, mk, lp, sem, locks,
                   statusCache, distanceCache, out, ft, ld, ut>>

\* getWordlist: ac.wordlist.Lock()
WalkLock(t) ==
    /\ pc = "wait" /\ t \in running /\ t.w.st = "lock"
    /\ ~locks.wordlist
    /\ locks' = [locks EXCEPT !.wordlist = TRUE]
    /\ UpdateTask(t, [t EXCEPT !.w.st = "send"])
    /\ UNCHANGED <<fx, args, urls, pc, url, ac, mk, lp, waiting, sem, wg,
                   statusCache, distanceCache, out, hist, ft, ld, ut>>

\* a loop that leaves out every second record
WalkSentSkips(w, records) ==
    [w EXCEPT !.ch = Append(@, records[w.idx]), !.idx = @ + 2]

\* the walk after one turn of the loop over the records
WalkSent(w, records) ==
    [w EXCEPT !.ch = Append(@, records[w.idx]), !.idx = @ + 1]

\* getWordlist: ch <- record
WalkSend(t) ==
    /\ pc = "wait" /\ t \in running /\ t.w.st = "send"
    /\ t.w.idx <= Len(Fx.wordlist.wordlist)
    /\ Len(t.w.ch) < ChanCap
    /\ UpdateTask(t, [t EXCEPT !.w = WalkSent(@, Fx.wordlist.wordlist)])
    /\ UNCHANGED <<fx, args, urls, pc, url, ac, mk, lp, waiting, sem, wg, locks,
                   statusCache, distanceCache, out, hist, ft, ld, ut>>

\* getWordlist: ac.wordlist.Unlock(); close(ch)
WalkClose(t) ==
    /\ pc = "wait" /\ t \in running /\ t.w.st = "send"
    /\ t.w.idx > Len(Fx.wordlist.wordlist)
    /\ locks' = [locks EXCEPT !.wordlist = FALSE]
    /\ UpdateTask(t, [t EXCEPT !.w.st = "end", !.w.closed = TRUE])
    /\ UNCHANGED <<fx, args, urls, pc, url, ac, mk, lp, waiting, sem, wg,
                   statusCache, distanceCache, out, hist, ft, ld, ut>>

\* for record := range ch: one record received and tested
TaskRecv(t) ==
    /\ pc = "wait" /\ t \in running /\ t.pc \in {"dechk", "walk"}
    /\ t.w.ch # <<>>
    /\ LET rec == Head(t.w.ch)
       IN  IF t.pc = "dechk" /\ rec.checksums # <<>> /\ GroupsPanic(rec.checksums)
           THEN /\ pc' = "panic"
                /\ UNCHANGED running
           ELSE /\ UpdateTask(t, [t EXCEPT
                     !.w.ch = Tail(@),
                     !.w.got = Append(@, rec),
                     !.fs = IF (t.pc = "dechk" /\ DechecksumMatch(t.br, rec))
                               \/ (t.pc = "walk" /\ WordlistMatch(t.br, rec))
                            THEN MapPut(@, rec) ELSE @])
                /\ UNCHANGED pc
    /\ UNCHANGED <<fx, args, urls, url, ac, mk, lp, waiting, sem, wg, locks,
                   statusCache, distanceCache, out, hist, ft, ld, ut>>

\* the channel is closed and drained: the guess set becomes a slice, and
\* the wordlist-based candidates follow the dechecksum candidates
TaskWalked(t) ==
    /\ pc = "wait" /\ t \in running /\ t.pc \in {"dechk", "walk"}
    /\ t.w.ch = <<>> /\ t.w.closed
    /\ \E o \in Orders(t.fs) :
          UpdateTask(t, IF t.pc = "dechk"
                        THEN [t EXCEPT !.fnc = o, !.pc = "walk", !.w = StartWalk, !.fs = {}]
                        ELSE [t EXCEPT !.fnc = @ \o o, !.w = NoWalk, !.fs = {}, !.ci = 1,
                                       !.pc = IF t.fnc \o o = <<>> THEN "emit" ELSE "cand"])
    /\ UNCHANGED <<fx, args, urls, pc, url, ac, mk, lp, waiting, sem, wg, locks,
                   statusCache, distanceCache, out, hist, ft, ld, ut>>


CacheGet(cache, e) == IF e \in DOMAIN cache THEN cache[e] ELSE {}

CachePut(cache, e, v) == [x \in DOMAIN cache \cup {e} |-> IF x = e THEN v ELSE cache[x]]

\* the path of a candidate
CandPath(c) == pathEscape(c.filename \o c.extension)

\* the request method of the existence check
CandMethod(a) == IF a.Autocomplete = "method" THEN "_" ELSE "GET"

\* a mutex that excludes nobody
CanLockAlways(held) == TRUE

\* whether the autocomplete mutex can be locked
CanLock(held) == ~held

\* ac.autocompleteMutex.Lock() for the next candidate
TaskCandLock(t) ==
    /\ pc = "wait" /\ t \in running /\ t.pc = "cand"
    /\ CanLock(locks.autocomplete)
    /\ locks' = [locks EXCEPT !.autocomplete = TRUE]
    /\ UpdateTask(t, [t EXCEPT !.pc = "check"])
    /\ UNCHANGED <<fx, args, urls, pc, url, ac, mk, lp, waiting, sem, wg,
                   statusCache, distanceCache, out, hist, ft, ld, ut>>

\* whether the candidate collides with a known discovery
Known(a, path) == path \in a.foundFiles

\* skip a known filename, else make the request to the candidate URL
TaskCandFetch(t) ==
    /\ pc = "wait" /\ t \in running /\ t.pc = "check"
    /\ LET path == CandPath(t.fnc[t.ci])
       IN  IF Known(ac, path)
           THEN /\ UpdateTask(t, [t EXCEPT !.pc = "unlock"])
                /\ UNCHANGED hist
           ELSE \E r \in Outcomes(Request(CandMethod(args), t.br.url, path, "")) :
                   /\ hist' = [Noted("exist", r) EXCEPT
                                   !.checks = Append(@, [br |-> t.br, path |-> path])]
                   /\ UpdateTask(t, [t EXCEPT !.res = r,
                                              !.pc = IF r.err THEN "unlock" ELSE "verify"])
    /\ UNCHANGED <<fx, args, urls, pc, url, ac, mk, lp, waiting, sem, wg, locks,
                   statusCache, distanceCache, out, ft, ld, ut>>

\* the history after a sampling request for an extension got outcome r:
\* the requests are counted and the statuses of the responses collected,
\* by extension
Sampled(ext, r) ==
    [Noted("sample", r) EXCEPT
        !.samples = CachePut(@, ext, (IF ext \in DOMAIN @ THEN @[ext] ELSE 0) + 1),
        !.seen = CachePut(@, ext, CacheGet(@, ext) \cup (IF r.err THEN {} ELSE {r.status}))]

\* the sampling loop count of getStatuses
StatusSamples(a) == IF a.Stabilise THEN 12 ELSE 2

\* a random path of 8 to 11 characters of alphanum, with the extension;
\* no fixture has a name that long, so it names no existing file
RandPath(ext) == pathEscape(<<"J","F","K","G","O","T","M","Y">>) \o ext

\* the test of line 427 left out
ResolvedAlwaysHead(t, found) ==
    IF found
    THEN [t EXCEPT !.fnr = CandPath(t.fnc[t.ci]), !.pc = "head"]
    ELSE [t EXCEPT !.pc = "unlock"]

\* the task after a full filename was found or not: the filename is added
\* to the list, and a directory check follows if recursion is enabled
Resolved(t, found) ==
    IF found
    THEN [t EXCEPT !.fnr = CandPath(t.fnc[t.ci]),
                   !.pc = IF ~args.NoRecurse THEN "head" ELSE "unlock"]
    ELSE [t EXCEPT !.pc = "unlock"]

AddFile(a, t, found) ==
    IF found THEN [a EXCEPT !.foundFiles = @ \cup {CandPath(t.fnc[t.ci])}] ELSE a

\* the test of line 383 turned round
StatusHitInverted(ss, res) == res.status \in ss

\* whether the candidate's status is none of the sampled statuses
StatusHit(ss, res) == res.status \notin ss

\* the existence check by mode; status mode uses the cached statuses or
\* starts sampling, distance mode calls getDistances
TaskVerify(t) ==
    /\ pc = "wait" /\ t \in running /\ t.pc = "verify"
    /\ LET ext == t.fnc[t.ci].extension
       IN  IF args.Autocomplete = "method"
           THEN /\ UpdateTask(t, Resolved(t, t.res.status = 405))
                /\ ac' = AddFile(ac, t, t.res.status = 405)
           ELSE IF args.Autocomplete = "distance"
           THEN /\ UpdateTask(t, [t EXCEPT !.pc = "dlock"])
                /\ UNCHANGED ac
           ELSE IF Cardinality(CacheGet(statusCache, ext)) > 0
           THEN /\ UpdateTask(t, Resolved(t, StatusHit(CacheGet(statusCache, ext), t.res)))
                /\ ac' = AddFile(ac, t, StatusHit(CacheGet(statusCache, ext), t.res))
           ELSE /\ UpdateTask(t, [t EXCEPT !.pc = "sample", !.sn = 0, !.ss = {}])
                /\ UNCHANGED ac
    /\ UNCHANGED <<fx, args, urls, pc, url, mk, lp, waiting, sem, wg, locks,
                   statusCache, distanceCache, out, hist, ft, ld, ut>>

\* getStatuses: one request for a non-existent URL; after the last one the
\* statuses are cached and the candidate is checked against them
TaskSample(t) ==
    /\ pc = "wait" /\ t \in running /\ t.pc = "sample"
    /\ LET ext == t.fnc[t.ci].extension
       IN  \E r \in Outcomes(Request("GET", t.br.url, RandPath(ext), "")) :
              LET ss == IF r.err THEN t.ss ELSE t.ss \cup {r.status}
              IN  /\ hist' = Sampled(ext, r)
                  /\ IF t.sn + 1 < StatusSamples(args)
                     THEN /\ UpdateTask(t, [t EXCEPT !.sn = @ + 1, !.ss = ss])
                          /\ UNCHANGED <<ac, statusCache>>
                     ELSE /\ statusCache' = CachePut(statusCache, ext, ss)
                          /\ UpdateTask(t, [Resolved(t, StatusHit(ss, t.res))
                                               EXCEPT !.sn = 0, !.ss = {}])
                          /\ ac' = AddFile(ac, t, StatusHit(ss, t.res))
    /\ UNCHANGED <<fx, args, urls, pc, url, mk, lp, waiting, sem, wg, locks,
                   distanceCache, out, ft, ld, ut>>

\* maths.Min and maths.Max
Min(a, b) == IF a < b THEN a ELSE b

Max(a, b) == IF a > b THEN a ELSE b

\* an inner loop that leaves the diagonal out: no substitution, no match
RECURSIVE DistanceRowNoDiagonal(_, _, _, _, _)
DistanceRowNoDiagonal(row, diag, ca, b, col) ==
    CHOOSE r \in {
        IF j > Len(b) THEN f
        ELSE LET mn == Min(f[j + 1] + 1, f[j] + 1)
             IN  DistanceRowNoDiagonal([f EXCEPT ![j + 1] = mn], f[j + 1], ca, b, j + 1) :
        <<f, fj1, j>> \in {<<row, diag, col>>}} : TRUE

\* levenshtein.Distance, the inner loop: the row f (f[j + 1] is the f[j] of
\* the code) after the characters of b from the j-th on are compared with ca
RECURSIVE DistanceRow(_, _, _, _, _)
DistanceRow(row, diag, ca, b, col) ==
    CHOOSE r \in {
        IF j > Len(b) THEN f
        ELSE LET mn == Min(Min(f[j + 1] + 1, f[j] + 1),
                           IF b[j] # ca THEN fj1 + 1 ELSE fj1)
             IN  DistanceRow([f EXCEPT ![j + 1] = mn], f[j + 1], ca, b, j + 1) :
        <<f, fj1, j>> \in {<<row, diag, col>>}} : TRUE

\* the outer loop, over the characters of a from the i-th on
RECURSIVE DistanceRows(_, _, _, _)
DistanceRows(row, a, b, from) ==
    CHOOSE r \in {
        IF i > Len(a) THEN f
        ELSE DistanceRows(DistanceRow([f EXCEPT ![1] = @ + 1], f[1], a[i], b, 1),
                          a, b, i + 1) :
        <<f, i>> \in {<<row, from>>}} : TRUE

\* the Levenshtein edit distance of two strings
Distance(a, b) == DistanceRows([j \in 1..(Len(b) + 1) |-> j - 1], a, b, 1)[Len(b) + 1]

\* the zero byte
Nul == "NUL"

\* b := make([]byte, 1024); res.Body.Read(b); string(b)
ReadBody(body) == [i \in 1..MaxBody |-> IF i <= Len(body) THEN body[i] ELSE Nul]

\* a distance as a fraction: float32(ld) / float32(maths.Max(len, len))
Fraction(num, den) == [num |-> num, den |-> den]

DistanceOf(a, b) == Fraction(Distance(a, b), Max(Len(a), Len(b)))

Greater(x, y) == x.num * y.den > y.num * x.den

\* lp - distance > 0.1
MoreThanTenth(x, distance) ==
    10 * (x.num * distance.den - distance.num * x.den) > x.den * distance.den

\* distances{}, the zero value, which a map gives for a missing key
NoDistances == [distance |-> Fraction(0, 1), body |-> <<>>]

IsNoDistances(d) == d.distance.num = 0 /\ d.body = <<>>

MapGet(m, k, zero) == IF k \in DOMAIN m THEN m[k] ELSE zero

\* the sampling loop count of getDistances
DistanceSamples(a) == IF a.Stabilise THEN 24 ELSE 4

\* the loop over the bodies already sampled for the status, the last one
\* left out: d is dists[status], whose distance is also highdist[status]
RECURSIVE Compared(_, _, _, _)
Compared(dist, prev, body, from) ==
    CHOOSE r \in {
        IF j >= Len(prev) THEN d
        ELSE LET x == DistanceOf(prev[j], body)
             IN  Compared(IF IsNoDistances(d) \/ Greater(x, d.distance)
                          THEN [distance |-> x, body |-> body] ELSE d,
                          prev, body, j + 1) :
        <<d, j>> \in {<<dist, from>>}} : TRUE

\* whether the candidate's response is a hit by its status or its distance
DistanceHit(dists, res) ==
    \E d \in {MapGet(dists, res.status, NoDistances)} :
        \/ IsNoDistances(d)
        \/ MoreThanTenth(DistanceOf(d.body, ReadBody(res.body)), d.distance)

\* getDistances: ac.distanceMutex.Lock(), and the cached distances if any
TaskDistLock(t) ==
    /\ pc = "wait" /\ t \in running /\ t.pc = "dlock"
    /\ CanLock(locks.distance)
    /\ locks' = [locks EXCEPT !.distance = TRUE]
    /\ LET cached == MapGet(distanceCache, t.fnc[t.ci].extension, <<>>)
       IN  UpdateTask(t, IF DOMAIN cached # {}
                         THEN [t EXCEPT !.pc = "dreturn", !.dists = cached]
                         ELSE [t EXCEPT !.pc = "dsample", !.sn = 0,
                                        !.bodies = <<>>, !.dists = <<>>])
    /\ UNCHANGED <<fx, args, urls, pc, url, ac, mk, lp, waiting, sem, wg,
                   statusCache, distanceCache, out, hist, ft, ld, ut>>

\* getDistances: one request for a random URL; after the last one the
\* distances are cached
TaskDistSample(t) ==
    /\ pc = "wait" /\ t \in running /\ t.pc = "dsample"
    /\ LET ext == t.fnc[t.ci].extension
       IN  \E r \in Outcomes(Request("GET", t.br.url, RandPath(ext), "")) :
           \E body \in {ReadBody(r.body)} :
           \E prev \in {MapGet(t.bodies, r.status, <<>>)} :
              LET dists  == IF r.err \/ Len(prev) < 2 THEN t.dists
                            ELSE CachePut(t.dists, r.status,
                                          Compared(MapGet(t.dists, r.status, NoDistances),
                                                   prev, body, 1))
                  bodies == IF r.err THEN t.bodies
                            ELSE CachePut(t.bodies, r.status, Append(prev, body))
              IN  /\ hist' = Sampled(ext, r)
                  /\ IF t.sn + 1 < DistanceSamples(args)
                     THEN /\ UpdateTask(t, [t EXCEPT !.sn = @ + 1, !.dists = dists,
                                                     !.bodies = bodies])
                          /\ UNCHANGED distanceCache
                     ELSE /\ distanceCache' = CachePut(distanceCache, ext, dists)
                          /\ UpdateTask(t, [t EXCEPT !.pc = "dreturn", !.sn = 0,
                                                     !.dists = dists, !.bodies = <<>>])
    /\ UNCHANGED <<fx, args, urls, pc, url, ac, mk, lp, waiting, sem, wg, locks,
                   statusCache, out, ft, ld, ut>>

\* getDistances returns, which unlocks the mutex, and the candidate's
\* response is compared with the distances
TaskDistReturn(t) ==
    /\ pc = "wait" /\ t \in running /\ t.pc = "dreturn"
    /\ locks' = [locks EXCEPT !.distance = FALSE]
    /\ UpdateTask(t, [Resolved(t, DistanceHit(t.dists, t.res)) EXCEPT !.dists = <<>>])
    /\ ac' = AddFile(ac, t, DistanceHit(t.dists, t.res))
    /\ UNCHANGED <<fx, args, urls, pc, url, mk, lp, waiting, sem, wg,
                   statusCache, distanceCache, out, hist, ft, ld, ut>>

\* the Location check left out
IsDirRedirectUnchecked(l, fnr) == TRUE

\* whether a Location header looks like a directory redirect to the name
IsDirRedirect(l, fnr) == HasSuffix(ToLower(l), <<"/">> \o ToLower(fnr) \o <<"/">>)

\* the HEAD request to the autocompleted URL
TaskHead(t) ==
    /\ pc = "wait" /\ t \in running /\ t.pc = "head"
    /\ \E r \in Outcomes(Request("HEAD", t.br.url, t.fnr, "")) :
          /\ hist' = Noted("head", r)
          /\ ac' = IF ~r.err /\ IsDirRedirect(r.location, t.fnr)
                   THEN [ac EXCEPT !.foundDirectories = @ \cup {t.fnr}]
                   ELSE ac
          /\ UpdateTask(t, [t EXCEPT !.pc = "unlock"])
    /\ UNCHANGED <<fx, args, urls, pc, url, mk, lp, waiting, sem, wg, locks,
                   statusCache, distanceCache, out, ft, ld, ut>>

\* the deferred Unlock, then the next candidate unless there was a match
TaskCandUnlock(t) ==
    /\ pc = "wait" /\ t \in running /\ t.pc = "unlock"
    /\ locks' = [locks EXCEPT !.autocomplete = FALSE]
    /\ UpdateTask(t, IF t.fnr # <<>> \/ t.ci >= Len(t.fnc)
                     THEN [t EXCEPT !.pc = "emit"]
                     ELSE [t EXCEPT !.pc = "cand", !.ci = @ + 1])
    /\ UNCHANGED <<fx, args, urls, pc, url, ac, mk, lp, waiting, sem, wg,
                   statusCache, distanceCache, out, hist, ft, ld, ut>>

Uncertain(s, n) == IF Len(s) >= n THEN s \o <<"?">> ELSE s

Result(scan, br, fnr) ==
    [type |-> "result", scan |-> scan, url |-> br.url, file |-> br.file,
     tilde |-> br.tilde, ext |-> br.ext,
     partname |-> Uncertain(br.file, 6) \o Uncertain(br.ext, 4), fullname |-> fnr]

\* the result is printed, then file extension discovery is kicked off
TaskEmit(t) ==
    /\ pc = "wait" /\ t \in running /\ t.pc = "emit"
    /\ out' = out \cup {Result(hist.scan, t.br, t.fnr)}
    /\ LET kids == IF Len(t.br.ext) = 0
                   THEN Spawn(ac, [t.br EXCEPT !.ext = <<".">>]) ELSE <<>>
       IN  /\ UpdateTask(t, [t EXCEPT !.pc = "deeper"])
           /\ waiting' = waiting \o kids
           /\ wg' = Add(wg, Len(kids))
    /\ UNCHANGED <<fx, args, urls, pc, url, ac, mk, lp, sem, locks,
                   statusCache, distanceCache, hist, ft, ld, ut>>

\* a stem limit one character short
CanGoDeeperShort(br) ==
    \/ Len(br.ext) > 0 /\ Len(br.ext) < 4
    \/ Len(br.ext) = 0 /\ Len(br.file) < 5

\* a name that is never taken to be longer
CanGoDeeperNever(br) == FALSE

\* whether the name can be longer
CanGoDeeper(br) ==
    \/ Len(br.ext) > 0 /\ Len(br.ext) < 4
    \/ Len(br.ext) = 0 /\ Len(br.file) < 6

\* if the rabbit hole goes deeper: the character check, and the recursion
TaskDeeper(t) ==
    /\ pc = "wait" /\ t \in running /\ t.pc = "deeper"
    /\ IF CanGoDeeper(t.br)
       THEN \E r \in Outcomes(Request(ac.method, t.br.url,
                                      DeeperPath(Len(t.br.ext) > 0, t.br), ac.suffix)) :
               LET kids == IF NotNeg(r, mk) THEN Spawn(ac, t.br) ELSE <<>>
               IN  /\ hist' = [Noted("enum", r) EXCEPT !.deeper = @ \cup
                                  {[br |-> t.br, err |-> r.err, status |-> r.status]}]
                   /\ waiting' = waiting \o kids
                   /\ wg' = Add(wg, Len(kids))
       ELSE UNCHANGED <<hist, waiting, wg>>
    /\ UpdateTask(t, [t EXCEPT !.pc = "exit"])
    /\ UNCHANGED <<fx, args, urls, pc, url, ac, mk, lp, sem, locks,
                   statusCache, distanceCache, out, ft, ld, ut>>

\* a Done that is lost
DoneLost(n) == n

\* wg.Done()
Done(n) == n - 1

\* the deferred <-sem and wg.Done()
TaskRelease(t) ==
    /\ pc = "wait" /\ t \in running /\ t.pc = "exit"
    /\ sem' = sem - 1
    /\ wg' = Done(wg)
    /\ running' = running \ {t}
    /\ UNCHANGED <<fx, args, urls, pc, url, ac, mk, lp, waiting, locks,
                   statusCache, distanceCache, out, hist, ft, ld, ut>>

----------------------------------------------------------------------------
(* Run: the wordlist is read into memory (its own specification, SpecLoad) *)

rainbowMagic == <<"#","S","H","O","R","T","S","C","A","N","#">>

\* strings.Count(line, sep) for a one-character separator
Count(line, sep) == Cardinality({i \in DOMAIN line : line[i] = sep})

\* strings.Split(line, sep) for a one-character separator
RECURSIVE Split(_, _)
Split(line, sep) ==
    CHOOSE r \in {
        IF \A i \in DOMAIN l : l[i] # sep THEN <<l>>
        ELSE LET p == CHOOSE i \in DOMAIN l : l[i] = sep /\ \A j \in 1..(i - 1) : l[j] # sep
             IN  <<SubSeq(l, 1, p - 1)>> \o Split(SubSeq(l, p + 1, Len(l)), sep) :
        l \in {line}} : TRUE

\* strings.LastIndex(line, sep) for a one-character separator, counted from
\* 1; 0 when the separator does not occur
LastIndex(line, sep) ==
    IF \A i \in DOMAIN line : line[i] # sep THEN 0
    ELSE CHOOSE i \in DOMAIN line : line[i] = sep /\ \A j \in (i + 1)..Len(line) : line[j] # sep

\* a replacer that lets the dots stand
ShortReplaceCharKeepsDot(c) ==
    IF c = " " THEN <<>>
    ELSE IF c \in {":", "+", ",", ";", "=", "[", "]"} THEN <<"_">>
    ELSE <<c>>

\* shortReplacer: spaces and dots go, the special seven become underscores
ShortReplaceChar(c) ==
    IF c \in {" ", "."} THEN <<>>
    ELSE IF c \in {":", "+", ",", ";", "=", "[", "]"} THEN <<"_">>
    ELSE <<c>>

ShortReplace(str) == Flatten([i \in 1..Len(str) |-> ShortReplaceChar(str[i])])

\* a generator that keeps eight characters of the stem
Gen8dot3Stem8(file, ext) ==
    LET fu == ToUpper(file)
        fr == ShortReplace(fu)
        eu == ToUpper(ext)
        er == ShortReplace(eu)
    IN  [r   |-> Len(file) > 8 \/ Len(ext) > 3 \/ fu # fr \/ eu # er,
         f83 |-> SubSeq(fr, 1, Min(Len(fr), 8)),
         e83 |-> SubSeq(er, 1, Min(Len(er), 3))]

\* shortutil.Gen8dot3
Gen8dot3(file, ext) ==
    LET fu == ToUpper(file)
        fr == ShortReplace(fu)
        eu == ToUpper(ext)
        er == ShortReplace(eu)
    IN  [r   |-> Len(file) > 8 \/ Len(ext) > 3 \/ fu # fr \/ eu # er,
         f83 |-> SubSeq(fr, 1, Min(Len(fr), 6)),
         e83 |-> SubSeq(er, 1, Min(Len(er), 3))]

\* the record of a line of a rainbow table
RainbowRecord(line) ==
    LET c == Split(line, "\t")
    IN  Record(c[1], c[4], IF Len(c[5]) > 0 THEN <<".">> \o c[5] ELSE c[5], c[2], c[3])

\* the record of a line of a plain wordlist
PlainRecord(line) ==
    LET p == LastIndex(line, ".") - 1
    IN  IF p > 0 /\ line[1] # "."
        THEN LET f == SubSeq(line, 1, p)
                 e == SubSeq(line, p + 1, Len(line))
             IN  Record(<<>>, f, e, Gen8dot3(f, e).f83, Gen8dot3(f, e).e83)
        ELSE Record(<<>>, line, <<>>, Gen8dot3(line, <<>>).f83, <<>>)

LoadIdle ==
    [pc |-> "idle", file |-> <<>>, i |-> 1, n |-> 0, isRainbow |-> FALSE, wordlist |-> <<>>]

\* whether the line is taken for the magic value of a rainbow table
IsMagic(n, line) == n = 0 /\ line = rainbowMagic

\* one turn of the loop over the lines of the wordlist
RunReadLine ==
    /\ ld.pc = "read" /\ ld.i <= Len(ld.file)
    /\ LET line == ld.file[ld.i]
       IN  ld' = IF IsMagic(ld.n, line)
                 THEN [ld EXCEPT !.isRainbow = TRUE, !.i = @ + 1]
                 ELSE IF Len(line) = 0 \/ line[1] = "#"
                 THEN [ld EXCEPT !.i = @ + 1]
                 ELSE IF ld.isRainbow /\ Count(line, "\t") # 4
                 THEN [ld EXCEPT !.pc = "fatal"]
                 ELSE [ld EXCEPT !.i = @ + 1, !.n = @ + 1,
                                 !.wordlist = Append(@, IF ld.isRainbow
                                                        THEN RainbowRecord(line)
                                                        ELSE PlainRecord(line))]
    /\ UNCHANGED <<scanVars, ft, ut>>

\* the end of the file: the wordlist is complete and Scan is called
RunLoaded ==
    /\ ld.pc = "read" /\ ld.i > Len(ld.file)
    /\ ld' = [ld EXCEPT !.pc = "loaded"]
    /\ UNCHANGED <<scanVars, ft, ut>>

----------------------------------------------------------------------------
(* shortutil: the checksums                                                *)

\* the printable ASCII characters in the order of their code points, from 32
\* (the double quote, the backslash and the backtick by their names: they
\* occur in no input)
Ascii ==
    <<" ","!","quote","#","$","%","&","'","(",")","*","+",",","-",".","/","0",
      "1","2","3","4","5","6","7","8","9",":",";","<","=",">","?","@","A","B",
      "C","D","E","F","G","H","I","J","K","L","M","N","O","P","Q","R","S","T",
      "U","V","W","X","Y","Z","[","backslash","]","^","_","backtick","a","b","c","d","e",
      "f","g","h","i","j","k","l","m","n","o","p","q","r","s","t","u","v","w",
      "x","y","z","{","|","}","~">>

\* uint16(c) of a character of a string, which is also its only byte
CodePoint(c) == IF c = "\t" THEN 9 ELSE 31 + (CHOOSE i \in DOMAIN Ascii : Ascii[i] = c)

\* a fixed-width integer as its bytes, least significant first: the k low
\* bytes of a number below 2^31
Bytes(n, k) == [i \in 1..k |-> IF i <= 4 THEN (n \div (256 ^ (i - 1))) % 256 ELSE 0]

\* a * b in as many bytes as a has, by long multiplication: the product
\* wraps around
Mul(a, b) ==
    LET RECURSIVE ColumnSum(_, _)
        ColumnSum(col, i) == IF i > col THEN 0
                             ELSE a[i] * b[col - i + 1] + ColumnSum(col, i + 1)
        RECURSIVE Columns(_, _)
        Columns(col, carry) ==
            IF col > Len(a) THEN <<>>
            ELSE LET s == carry + ColumnSum(col, 1)
                 IN  <<s % 256>> \o Columns(col + 1, s \div 256)
    IN  Columns(1, 0)

\* a - b in as many bytes as a has, with the borrow: the difference wraps
\* around
Sub(a, b) ==
    LET RECURSIVE Columns(_, _)
        Columns(col, borrow) ==
            IF col > Len(a) THEN <<>>
            ELSE LET d == a[col] - b[col] - borrow
                 IN  <<(d + 256) % 256>> \o Columns(col + 1, IF d < 0 THEN 1 ELSE 0)
    IN  Columns(1, 0)

\* the four nibbles of a uint16 in reverse order
ReverseNibbles(ck) ==
    (ck \div 4096) + ((ck \div 256) % 16) * 16 + ((ck \div 16) % 16) * 256
        + (ck % 16) * 4096

\* fmt.Sprintf("%04X", ck) of a uint16
Sprintf04X(ck) ==
    LET digit(d) == SubSeq(Ascii, 17, 26)[d + 1]
        letter(d) == SubSeq(Ascii, 34, 39)[d - 9]
        hex(d) == IF d < 10 THEN digit(d) ELSE letter(d)
    IN  <<hex(ck \div 4096), hex((ck \div 256) % 16), hex((ck \div 16) % 16),
          hex(ck % 16)>>

RECURSIVE AccumulateSum(_, _, _)
\* a loop that adds the characters up without the multiplier
AccumulateSum(ck, f, i) ==
    IF i > Len(f) THEN ck
    ELSE AccumulateSum((ck + CodePoint(f[i])) % 65536, f, i + 1)

RECURSIVE Accumulate(_, _, _)
\* the loop of Checksum over the characters of f, from the i-th on
Accumulate(ck, f, i) ==
    IF i > Len(f) THEN ck
    ELSE Accumulate((ck * 37 + CodePoint(f[i])) % 65536, f, i + 1)

\* Checksum: the short filename checksum of a filename.  The product
\* int32(ck) * 314159269 is odd or zero, hence never -2^31, and the
\* conversions to float64 and back are exact
Checksum(f) ==
    LET ck == Accumulate(0, f, 1)
        p  == Mul(Bytes(ck, 4), Bytes(314159269, 4))
        t  == IF p[4] >= 128 THEN Sub(Bytes(0, 4), p) ELSE p
        sh == Mul([i \in 1..8 |-> IF i <= 4 THEN t[i] ELSE 0],
                  Bytes(1152921497, 8))[8] \div 16
        m  == Mul(Bytes(sh, 8), Bytes(1000000007, 8))
        u  == Sub(t, SubSeq(m, 1, 4))
    IN  Sprintf04X(ReverseNibbles(u[1] + 256 * u[2]))

\* the first two bytes the other way round
OriginalSeedLowFirst(f) == (CodePoint(f[2]) * 256 + CodePoint(f[1])) % 65536

\* the first two bytes of the filename as the initial checksum
OriginalSeed(f) == (CodePoint(f[1]) * 256 + CodePoint(f[2])) % 65536

\* ChecksumOriginal: the older checksum, two bytes of f at a time from the
\* offset 2 on; f has two bytes at least
ChecksumOriginal(f) ==
    LET RECURSIVE Loop(_, _)
        Loop(ck, i) ==
            IF i >= Len(f) THEN ck
            ELSE LET hi  == (CodePoint(f[i + 1]) * 256) % 65536
                     rot == IF ck % 2 = 1 THEN (32768 + (ck \div 2) + hi) % 65536
                            ELSE ((ck \div 2) + hi) % 65536
                     sum == IF i + 1 < Len(f) THEN (rot + CodePoint(f[i + 2])) % 65536
                            ELSE rot
                 IN  Loop(sum, i + 2)
    IN  Sprintf04X(ReverseNibbles(Loop(OriginalSeed(f), 2)))

\* shortutil before it runs: the arguments of the subcommands, the output,
\* the parameters and results of a call of Gen8dot3 or of Distance, and the locals of the
\* wordlist subcommand (the lines read, the records made of them, the
\* entries seen)
UtilIdle ==
    [pc |-> "idle", Filename |-> <<>>, Original |-> FALSE, stdout |-> <<>>,
     file |-> <<>>, ext |-> <<>>, a |-> <<>>, b |-> <<>>, ret |-> <<>>,
     KeepCase |-> FALSE, Uniq |-> TRUE, Variants |-> TRUE, opens |-> TRUE,
     lines |-> <<>>, i |-> 1, wc |-> <<>>, j |-> 1, words |-> {}]

\* a call of levenshtein.Distance and its result
CallDistance ==
    /\ ut.pc = "distance"
    /\ ut' = [ut EXCEPT !.pc = "returned", !.ret = Distance(ut.a, ut.b)]
    /\ UNCHANGED <<scanVars, ft, ld>>

\* a call of Gen8dot3 and its three results
CallGen8dot3 ==
    /\ ut.pc = "gen8dot3"
    /\ ut' = [ut EXCEPT !.pc = "returned", !.ret = Gen8dot3(ut.file, ut.ext)]
    /\ UNCHANGED <<scanVars, ft, ld>>

\* Run, subcommand checksum: the checksum of the filename is printed; the
\* original algorithm indexes the first two bytes and panics without them
RunChecksum ==
    /\ ut.pc = "checksum"
    /\ ut' = IF ut.Original
             THEN IF Len(ut.Filename) < 2
                  THEN [ut EXCEPT !.pc = "panic"]
                  ELSE [ut EXCEPT !.pc = "exit",
                                  !.stdout = Append(@, ChecksumOriginal(ut.Filename))]
             ELSE [ut EXCEPT !.pc = "exit",
                             !.stdout = Append(@, Checksum(ut.Filename))]
    /\ UNCHANGED <<scanVars, ft, ld>>

\* url.PathUnescape: a percent sign with two hex digits behind it is the
\* byte they name; with anything else behind it the string is invalid, and
\* the empty string is returned with the error
PathUnescape(str) ==
    LET hexval(c) ==
            IF c \in {"0","1","2","3","4","5","6","7","8","9"}
            THEN CodePoint(c) - 48
            ELSE IF c \in {"A","B","C","D","E","F"} THEN CodePoint(c) - 55
            ELSE IF c \in {"a","b","c","d","e","f"} THEN CodePoint(c) - 87
            ELSE 16
        byte(n) == IF n = 9 THEN "\t"
                   ELSE IF n \in 32..126 THEN Ascii[n - 31] ELSE "byte"
        valid == \A i \in DOMAIN str :
                    str[i] = "%" => /\ i + 2 <= Len(str)
                                    /\ hexval(str[i + 1]) < 16
                                    /\ hexval(str[i + 2]) < 16
        RECURSIVE decode(_)
        decode(i) ==
            IF i > Len(str) THEN <<>>
            ELSE IF str[i] = "%"
                 THEN <<byte(16 * hexval(str[i + 1]) + hexval(str[i + 2]))>> \o decode(i + 3)
                 ELSE <<str[i]>> \o decode(i + 1)
    IN  IF valid THEN decode(1) ELSE <<>>

\* path.Base: the last element of the path, trailing slashes apart; "." for
\* the empty path and "/" for a path of slashes
Base(w) ==
    LET RECURSIVE strip(_)
        strip(x) == IF Len(x) > 0 /\ x[Len(x)] = "/" THEN strip(SubSeq(x, 1, Len(x) - 1))
                    ELSE x
        x == strip(w)
        i == LastIndex(x, "/")
    IN  IF w = <<>> THEN <<".">>
        ELSE IF x = <<>> THEN <<"/">>
        ELSE SubSeq(x, i + 1, Len(x))

\* paramRegex.Split(w, 2)[0]: what stands before the first of ? ; # & \r \n
ParamSplit(w) ==
    LET hits == {i \in DOMAIN w : w[i] \in {"?", ";", "#", "&", "\r", "\n"}}
    IN  IF hits = {} THEN w
        ELSE SubSeq(w, 1, (CHOOSE i \in hits : \A j \in hits : i <= j) - 1)

\* strings.TrimSpace
TrimSpace(w) ==
    LET ink == {i \in DOMAIN w : w[i] \notin {" ", "\t", "\n", "\r"}}
    IN  IF ink = {} THEN <<>>
        ELSE SubSeq(w, CHOOSE i \in ink : \A j \in ink : i <= j,
                       CHOOSE i \in ink : \A j \in ink : i >= j)

\* strings.Title: a letter that begins a word is upper-cased, the other
\* characters stay; letters, digits and the underscore make the words
Title(w) ==
    LET inword(c) == c = "_" \/ c \in {"0","1","2","3","4","5","6","7","8","9"}
                       \/ ToUpperChar(c) # ToLowerChar(c)
    IN  [i \in DOMAIN w |-> IF i = 1 \/ ~inword(w[i - 1]) THEN ToUpperChar(w[i])
                            ELSE w[i]]

\* ChecksumWords, the word of a line: unescaped twice, without path
\* elements, parameters, surrounding whitespace and tabs
Word(line) ==
    SelectSeq(TrimSpace(ParamSplit(Base(PathUnescape(PathUnescape(line))))),
              LAMBDA c : c # "\t")

\* ChecksumWords, the file and the extension of a word
SplitWord(w) ==
    LET p == LastIndex(w, ".") - 1
    IN  IF p > 0 /\ w[1] # "."
        THEN [f |-> SubSeq(w, 1, p), e |-> SubSeq(w, p + 2, Len(w))]
        ELSE [f |-> w, e |-> <<>>]

\* ChecksumWords, the map vs: the checksums of the case variants of a word
VariantSums(w, variants) ==
    IF variants
    THEN {Checksum(w), Checksum(ToLower(w)), Checksum(ToUpper(w)), Checksum(Title(w))}
    ELSE {}

\* the strings that ranging over the map vs can concatenate: the order of
\* the iteration over a map is not defined
Concatenations(vs) ==
    {Flatten(o) : o \in {q \in [1..Cardinality(vs) -> vs] :
                            \A i, j \in DOMAIN q : q[i] = q[j] => i = j}}

\* Run, subcommand wordlist: the wordlist is opened and the header printed
RunWordlist ==
    /\ ut.pc = "wordlist"
    /\ ut' = IF ut.opens
             THEN [ut EXCEPT !.pc = "words", !.stdout = Append(@, rainbowMagic)]
             ELSE [ut EXCEPT !.pc = "fatal"]
    /\ UNCHANGED <<scanVars, ft, ld>>

\* ChecksumWords, one turn of the loop over the lines, and the return after
\* the last line
RunChecksumWords ==
    /\ ut.pc = "words"
    /\ IF ut.i > Len(ut.lines)
       THEN ut' = [ut EXCEPT !.pc = "print"]
       ELSE \E w \in {Word(ut.lines[ut.i])} :
            \E s \in {SplitWord(w)} :
            \E g \in {Gen8dot3(s.f, s.e)} :
               IF ~g.r
               THEN ut' = [ut EXCEPT !.i = @ + 1]
               ELSE \E c \in Concatenations(VariantSums(w, ut.Variants)) :
                       ut' = [ut EXCEPT !.i = @ + 1,
                                        !.wc = Append(@, Record(c, s.f, s.e, g.f83, g.e83))]
    /\ UNCHANGED <<scanVars, ft, ld>>

\* Run, one turn of the loop over the records: the entry is upper-cased
\* unless the case is kept, skipped when it was seen before, and printed
RunPrintEntry ==
    /\ ut.pc = "print"
    /\ IF ut.j > Len(ut.wc)
       THEN ut' = [ut EXCEPT !.pc = "exit"]
       ELSE LET w  == ut.wc[ut.j]
                f  == IF ut.KeepCase THEN w.filename ELSE ToUpper(w.filename)
                e  == IF ut.KeepCase THEN w.extension ELSE ToUpper(w.extension)
                fe == f \o <<".">> \o e
            IN  IF ut.Uniq /\ fe \in ut.words
                THEN ut' = [ut EXCEPT !.j = @ + 1]
                ELSE ut' = [ut EXCEPT !.j = @ + 1,
                               !.words = IF ut.Uniq THEN @ \cup {fe} ELSE @,
                               !.stdout = Append(@, w.checksums \o <<"\t">> \o w.filename83
                                                     \o <<"\t">> \o w.extension83
                                                     \o <<"\t">> \o f \o <<"\t">> \o e)]
    /\ UNCHANGED <<scanVars, ft, ld>>

\* shortscan's Run opens, as its wordlist, the file that shortutil has written
RunOpenTable ==
    /\ ut.pc = "exit" /\ ld.pc = "idle"
    /\ ld' = [LoadIdle EXCEPT !.pc = "read", !.file = ut.stdout]
    /\ UNCHANGED <<scanVars, ft, ut>>

----------------------------------------------------------------------------
(* The specifications *)

NoLocks == [autocomplete |-> FALSE, distance |-> FALSE, wordlist |-> FALSE]

NoCache == [e \in {} |-> {}]

NoHistory == [reqs |-> {}, fails |-> 0, delays |-> 0, scan |-> 0, order |-> <<>>,
              found |-> {}, samples |-> <<>>, pairs |-> <<>>, deeper |-> {},
              checks |-> <<>>, seen |-> <<>>, tstatus |-> <<>>]

\* Run: the state in which Scan is called
ScanFresh ==
    /\ pc = "pop"
    /\ url = <<>>
    /\ ac = NewAttackConfig
    /\ mk = [statusPos |-> 0, statusNeg |-> 0]
    /\ lp = NewLocals
    /\ waiting = <<>>
    /\ running = {}
    /\ sem = 0
    /\ wg = 0
    /\ locks = NoLocks
    /\ statusCache = NoCache
    /\ distanceCache = NoCache
    /\ out = {}
    /\ hist = NoHistory

ScanInit(f, c) ==
    /\ fx = f.name
    /\ args = [f.args EXCEPT !.Concurrency = c]
    /\ urls = f.args.Urls
    /\ ScanFresh

Init ==
    /\ \E f \in Fixtures : \E c \in 1..MaxConcurrency : ScanInit(f, c)
    /\ ft = FetchIdle
    /\ ld = LoadIdle
    /\ ut = UtilIdle

Next ==
    \/ ScanPop
    \/ ScanPreflight
    \/ ScanAutoselect
    \/ ScanNegative
    \/ ScanPositive
    \/ ScanDisambiguate
    \/ ScanCommit
    \/ ScanStatus
    \/ ScanChars
    \/ ScanEnumerate
    \/ ScanWait
    \/ ScanPrepend
    \/ \E k \in 1..Len(waiting) : TaskAcquire(k)
    \/ \E t \in running : TaskProbe(t)
    \/ \E t \in running : TaskFull(t)
    \/ \E t \in running : TaskComplete(t)
    \/ \E t \in running : WalkLock(t)
    \/ \E t \in running : WalkSend(t)
    \/ \E t \in running : WalkClose(t)
    \/ \E t \in running : TaskRecv(t)
    \/ \E t \in running : TaskWalked(t)
    \/ \E t \in running : TaskCandLock(t)
    \/ \E t \in running : TaskCandFetch(t)
    \/ \E t \in running : TaskVerify(t)
    \/ \E t \in running : TaskSample(t)
    \/ \E t \in running : TaskDistLock(t)
    \/ \E t \in running : TaskDistSample(t)
    \/ \E t \in running : TaskDistReturn(t)
    \/ \E t \in running : TaskHead(t)
    \/ \E t \in running : TaskCandUnlock(t)
    \/ \E t \in running : TaskEmit(t)
    \/ \E t \in running : TaskDeeper(t)
    \/ \E t \in running : TaskRelease(t)

Spec == Init /\ [][Next]_vars

\* one call of fetch, for every validity of the request and of the headers
\* and every outcome of each attempt
InitFetch ==
    /\ ScanInit(FxSame(0), 1)
    /\ \E v \in BOOLEAN : \E h \in HeaderSets : \E o \in [1..FetchTries -> DoOutcomes] :
          ft = [FetchIdle EXCEPT !.pc = "new", !.valid = v, !.headers = h, !.outcomes = o]
    /\ ld = LoadIdle
    /\ ut = UtilIdle

NextFetch == FetchNewRequest \/ FetchAttempt \/ FetchReturn

SpecFetch == InitFetch /\ [][NextFetch]_vars

\* goroutines that can take a step do take one, and requests return
FairSpec == Spec /\ WF_vars(Next)

\* the strings over an alphabet up to a length
StringsUpTo(alphabet, n) == UNION {[1..k -> alphabet] : k \in 0..n}

\* the URLs given to Scan: a host and a path made of the letter h and of
\* slashes, with a scheme in front or none
UrlInputs ==
    {scheme \o rest : scheme \in {<<>>, <<"h","t","t","p",":","/","/">>,
                                  <<"h","t","t","p","s",":","/","/">>},
                      rest \in {r \in StringsUpTo({"h", "/"}, MaxUrlLen) :
                                  r # <<>> /\ r[1] = "h"}}

\* Scan pops one URL, for every URL of UrlInputs
InitUrl ==
    /\ \E u \in UrlInputs :
          /\ fx = FxSame(0).name
          /\ args = [FxSame(0).args EXCEPT !.Urls = <<u>>]
          /\ urls = <<u>>
          /\ ScanFresh
    /\ ft = FetchIdle
    /\ ld = LoadIdle
    /\ ut = UtilIdle

NextUrl == ScanPop

SpecUrl == InitUrl /\ [][NextUrl]_vars

\* the lines of the wordlist files: blank, a comment, the magic value, a
\* word, and a row of a rainbow table
LoadLines ==
    { <<>>, <<"#","x">>, rainbowMagic, <<"a",".","b">>, <<"a","b">>,
      <<".","a">>, <<".","a",".","b">>,
      <<"0","1","\t","A","\t","B","\t","a","\t","b">>,
      <<"0","1","2","3","\t","A","\t","B","\t","a","\t","b">> }

\* Run reads a wordlist file, for every file of up to MaxLines lines
InitLoad ==
    /\ ScanInit(FxSame(0), 1)
    /\ ft = FetchIdle
    /\ \E f \in StringsUpTo(LoadLines, MaxLines) :
          ld = [LoadIdle EXCEPT !.pc = "read", !.file = f]
    /\ ut = UtilIdle

NextLoad == RunReadLine \/ RunLoaded

SpecLoad == InitLoad /\ [][NextLoad]_vars

IndexHtml == <<"i","n","d","e","x",".","h","t","m","l">>

\* the filenames given to shortutil checksum
NameInputs == StringsUpTo({"A", "B", "a", "."}, MaxNameLen) \cup {IndexHtml}

\* shortutil checksum [-o] filename, for every filename of NameInputs
InitSum ==
    /\ ScanInit(FxSame(0), 1)
    /\ ft = FetchIdle
    /\ ld = LoadIdle
    /\ \E f \in NameInputs : \E o \in BOOLEAN :
          ut = [UtilIdle EXCEPT !.pc = "checksum", !.Filename = f, !.Original = o]

NextSum == RunChecksum

SpecSum == InitSum /\ [][NextSum]_vars

ProgramFiles == <<"P","R","O","G","R","A",".","M"," ","F","I","L","E","S">>

SpecialSeven == <<"a",":","b","+","c",",","d",";","e","=","f","[","g","]","h">>

\* the stems given to Gen8dot3: short ones over letters, space, dot and
\* colon, and named ones of 5 to 15 characters
StemInputs ==
    StringsUpTo({"a", "B", " ", ".", ":"}, MaxStemLen)
        \cup {<<"S","H","O","R","T">>, <<"A","B","C","D","E","F","G">>,
              <<"a","b","c","d","e","f","g","h">>,
              <<"a","b","c","d","e","f","g","h","i">>, ProgramFiles, SpecialSeven}

\* the extensions given to Gen8dot3
ExtInputs ==
    {<<>>, <<"t","x","t">>, <<"h","t","m">>, <<"h","t","m","l">>, <<"T","X","T">>,
     <<"t"," ","t">>, <<"a","=","b">>, <<"a",".">>}

\* Gen8dot3(file, ext), for every stem and extension of the inputs
InitGen ==
    /\ ScanInit(FxSame(0), 1)
    /\ ft = FetchIdle
    /\ ld = LoadIdle
    /\ \E f \in StemInputs : \E e \in ExtInputs :
          ut = [UtilIdle EXCEPT !.pc = "gen8dot3", !.file = f, !.ext = e]

NextGen == CallGen8dot3

SpecGen == InitGen /\ [][NextGen]_vars

Kitten == <<"k","i","t","t","e","n">>

Sitting == <<"s","i","t","t","i","n","g">>

\* the pairs of strings given to Distance
DistanceInputs ==
    (StringsUpTo({"a", "b"}, MaxDistLen) \X StringsUpTo({"a", "b"}, MaxDistLen))
        \cup {<<Kitten, Sitting>>, <<Sitting, Kitten>>}

\* Distance(a, b), for every pair of the inputs
InitDistance ==
    /\ ScanInit(FxSame(0), 1)
    /\ ft = FetchIdle
    /\ ld = LoadIdle
    /\ \E p \in DistanceInputs :
          ut = [UtilIdle EXCEPT !.pc = "distance", !.a = p[1], !.b = p[2]]

NextDistance == CallDistance

SpecDistance == InitDistance /\ [][NextDistance]_vars

\* the lines of the wordlists given to shortutil wordlist
WordLines ==
    {<<"a","b",".","h","t","m","l">>,
     <<"A","b",".","h","t","m","l">>,
     <<"a","B",".","h","t","m","l">>,
     <<"A","B",".","H","T","M","L">>,
     <<"a","b",".","h","t","m">>,
     <<"a"," ","b",".","t","x","t">>,
     <<"a","b","c","d","e","f","g","h","i",".">>,
     <<"a","b","c","d","e","f","g","h","i">>,
     <<".","h","t","a","c","c","e","s","s">>,
     <<"x","/","a","b",".","h","t","m","l">>,
     <<"a","b",".","h","t","m","l","?","q">>,
     <<" ","a","b",".","h","t","m","l">>,
     <<"a","\t","b",".","h","t","m","l">>,
     <<"%","4","1","b",".","h","t","m","l">>,
     <<"%","2","5","4","1","b",".","h","t","m","l">>,
     <<"a","%","b",".","h","t","m","l">>,
     <<>>,
     <<"a",".","b",".","h","t","m","l">>,
     <<"a","b",".","h","t","m","l","/">>}

\* lines that differ in their case only
TwinLines == {<<"a","b",".","h","t","m","l">>, <<"A","b",".","h","t","m","l">>, <<"A","B",".","H","T","M","L">>}

\* shortutil wordlist: a wordlist of one line with every setting of the
\* options, a wordlist of up to MaxWords lines that differ in case, with
\* the default options, and a wordlist that cannot be opened
InitWords ==
    /\ ScanInit(FxSame(0), 1)
    /\ ft = FetchIdle
    /\ ld = LoadIdle
    /\ \/ \E l \in WordLines : \E k, u, v \in BOOLEAN :
             ut = [UtilIdle EXCEPT !.pc = "wordlist", !.lines = <<l>>,
                                   !.KeepCase = k, !.Uniq = u, !.Variants = v]
       \/ \E ls \in StringsUpTo(TwinLines, MaxWords) :
             ut = [UtilIdle EXCEPT !.pc = "wordlist", !.lines = ls]
       \/ ut = [UtilIdle EXCEPT !.pc = "wordlist", !.opens = FALSE]

NextWords ==
    \/ RunWordlist
    \/ RunChecksumWords
    \/ RunPrintEntry
    \/ RunOpenTable
    \/ RunReadLine
    \/ RunLoaded

SpecWords == InitWords /\ [][NextWords]_vars

----------------------------------------------------------------------------
(* The claims                                                              *)

Results == {r \in out : r.type = "result"}

SecretStem == <<"S","E","C","R","E","T">>

\* the current URL holds the one hidden alias SECRET~1.TXT, the scan reached
\* the enumeration, and the discovered character sets hold its characters
SecretTarget ==
    /\ Fx.srv.kind = "iis"
    /\ ServerDir(Fx.srv, url).aliases = {SecretAlias}
    /\ pc \in {"wait", "prepend"}
    /\ Range(SecretStem) \subseteq Range(ac.fileChars[TildeStr(1)])
    /\ Range(<<"T","X","T">>) \subseteq Range(ac.extChars[TildeStr(1)])

IsSecretResult(r) ==
    r.file = SecretStem /\ r.tilde = TildeStr(1) /\ r.ext = <<".","T","X","T">>

\* C1: on the target with the one hidden alias SECRET~1.TXT the enumeration
\* emits no result for any other alias, and when it is over it has emitted
\* the result with file SECRET, tilde ~1 and ext .TXT
C1_SecretAliasOnly ==
    SecretTarget =>
        /\ \A r \in Results : r.url = url => IsSecretResult(r)
        /\ pc = "prepend" => \E r \in Results : r.url = url /\ IsSecretResult(r)

C1_Witness ==
    /\ SecretTarget /\ pc = "prepend"
    /\ \E r \in Results : r.url = url /\ IsSecretResult(r)

\* C2: when the server gives the same status to every request, no tilde is
\* accepted, every status event says not vulnerable, the URL scanned is
\* reported, and no request of character discovery, of the enumeration or
\* of the autocomplete checks is made (the requests made are the preflight,
\* the autocomplete mode selection and those of the probe)
C2_SameStatusNotVulnerable ==
    Fx.srv.kind = "same" =>
        /\ ac.tildes = <<>>
        /\ \A e \in out : e.type = "status" /\ ~e.vulnerable
        /\ hist.reqs \subseteq {"preflight", "auto", "neg", "pos", "dis"}
        /\ (pc \in {"pop", "done"} /\ hist.scan > 0) => StatusEvent(url, FALSE) \in out

C2_Witness ==
    /\ Fx.srv.kind = "same" /\ pc = "done"
    /\ "pos" \in hist.reqs
    /\ StatusEvent(url, FALSE) \in out

\* the responses of claim C3 under the suffix and method of the probe
C3_Responses(si, mi) ==
    LET R(p) == Respond(Fx.srv, Request(httpMethods[mi], url, p, pathSuffixes[si]))
    IN  /\ \A n \in 5..9 : R(<<"*", DigitChar(n), "*">>) = {Resp(404, NoLocation)}
        /\ \A i \in {0, 2, 3, 4} :
              R(<<"*">> \o TildeStr(i) \o <<"*">>) = {Resp(404, NoLocation)}
        /\ R(<<"*">> \o TildeStr(1) \o <<"*">>) = {Resp(200, NoLocation)}

\* C3: when the four samples and the requests for ~0, ~2, ~3, ~4 return 404
\* and the request for ~1 returns 200, the probe ends with tildes = [~1],
\* statusPos = 200 and statusNeg = 404
C3_CommitsTilde1 ==
    (pc = "commit" /\ hist.fails = 0 /\ C3_Responses(lp.si, lp.mi)) =>
        /\ ac.tildes = <<TildeStr(1)>>
        /\ mk = [statusPos |-> 200, statusNeg |-> 404]

C3_Witness ==
    /\ pc = "commit" /\ hist.fails = 0 /\ C3_Responses(lp.si, lp.mi)
    /\ ac.tildes = <<TildeStr(1)>>

\* C4: while character discovery or enumeration runs for any URL, the
\* positive and the negative status marker differ
C4_MarkersDiffer ==
    pc \in {"chars", "enum", "wait", "prepend"} => mk.statusPos # mk.statusNeg

\* the third URL starts character discovery after a URL that was skipped
C4_Witness ==
    /\ pc = "chars" /\ hist.scan = 3
    /\ StatusEvent(hist.order[2], FALSE) \in out
    /\ mk.statusPos # mk.statusNeg

\* the first attempt of a fetch call that succeeds, 0 when none does
FirstSuccess(o) ==
    IF \A i \in DOMAIN o : o[i].err THEN 0
    ELSE CHOOSE i \in DOMAIN o : ~o[i].err /\ \A j \in 1..(i - 1) : o[j].err

\* C5: fetch makes up to four attempts and returns the first response that
\* succeeds; it returns the error only when all four attempts failed
C5_RetriesUntilSuccess ==
    ft.pc = "returned" =>
        LET k == FirstSuccess(ft.outcomes)
        IN  IF k = 0
            THEN ft.ret.err /\ ft.attempts = FetchTries
            ELSE ft.ret = ft.outcomes[k] /\ ft.attempts = k

\* C6: within one URL scan no long filename is confirmed twice: no two
\* results of the scan, and no two running tasks, carry the same non-empty
\* full name
C6_ConfirmedOnce ==
    /\ \A r1, r2 \in Results :
          (r1 # r2 /\ r1.scan = r2.scan /\ r1.fullname # <<>>)
              => r1.fullname # r2.fullname
    /\ \A t1, t2 \in running :
          (t1 # t2 /\ t1.fnr # <<>>) => t1.fnr # t2.fnr

\* two short names of one scan resolve to the same candidate: one result
\* carries the full name, the other none
C6_Witness ==
    /\ args.Concurrency = 2
    /\ \E r1, r2 \in Results :
          /\ r1.scan = r2.scan /\ r1.file = r2.file /\ r1.tilde # r2.tilde
          /\ r1.fullname # <<>> /\ r2.fullname = <<>>
          /\ r1.fullname \in ac.foundFiles

\* C7: a name is in foundDirectories only if recursion is enabled, the name
\* is in foundFiles, and the HEAD request for it is answered with a
\* Location that ends, ignoring case, in /<name>/
C7_FoundDirectories ==
    \A d \in ac.foundDirectories :
        /\ ~args.NoRecurse
        /\ d \in ac.foundFiles
        /\ \E r \in Respond(Fx.srv, Request("HEAD", url, d, "")) :
              HasSuffix(ToLower(r.location), <<"/">> \o ToLower(d) \o <<"/">>)

\* the directory Ab is found under its wordlist name ab
C7_Witness ==
    /\ <<"a","b">> \in ac.foundDirectories
    /\ <<"A","b">> \in ServerDir(Fx.srv, url).dirnames
    /\ "head" \in hist.reqs

\* C8: the directories found under a URL are at the front of the queue when
\* its scan ends; every discovered directory is scanned or still queued, and
\* scanned when the run ends; the URLs under a scanned URL are scanned right
\* after it, before any URL that was behind it
C8_DepthFirst ==
    /\ (pc = "pop" /\ hist.scan > 0) =>
          /\ Cardinality(ac.foundDirectories) <= Len(urls)
          /\ {urls[i] : i \in 1..Cardinality(ac.foundDirectories)}
                = {url \o d \o <<"/">> : d \in ac.foundDirectories}
    /\ hist.found \subseteq Range(hist.order) \cup Range(urls)
    /\ pc = "done" => hist.found \subseteq Range(hist.order)
    /\ \A i, j, k \in DOMAIN hist.order :
          (i < j /\ j < k /\ hist.order[k] \in hist.found
                 /\ HasPrefix(hist.order[k], hist.order[i]))
              => HasPrefix(hist.order[j], hist.order[i])

\* a directory, the directory found inside it, its sibling, and then the
\* URL that was behind them all
C8_Witness ==
    /\ pc = "done" /\ Len(hist.order) = 5
    /\ hist.order[2] \in hist.found
    /\ HasPrefix(hist.order[3], hist.order[2])
    /\ hist.order[4] \in hist.found
    /\ hist.order[5] = Normalise(Fx.args.Urls[2])

\* C9: the tasks that hold a pool slot, the only ones that make requests,
\* are never more than the concurrency setting
C9_PoolBound ==
    /\ Cardinality(running) <= args.Concurrency
    /\ sem = Cardinality(running)

\* the pool is full and a goroutine waits for a slot
C9_Witness ==
    /\ args.Concurrency = 2 /\ Cardinality(running) = 2
    /\ Len(waiting) > 0
    /\ \E t \in running : t.pc = "probe"

\* C10: once the enumeration of a URL has started, the wait of the driver
\* returns
C10_EnumerationCompletes == (pc = "wait") ~> (pc = "prepend")

\* the wait returned after tasks queued for the pool and names were found
C10_Witness ==
    /\ pc = "prepend" /\ wg = 0 /\ running = {} /\ waiting = <<>>
    /\ hist.delays > 0
    /\ \E r \in Results : r.scan = hist.scan

\* C11: a transport failure of a request of the probe of a (suffix, method)
\* pair, be it a negative sample, a request for *~i* or the request for
\* *~0*, skips the method: no tilde is committed and the probe goes on with
\* the next method
C11_FailureSkipsMethod ==
    [][(pc \in {"neg", "pos", "dis"} /\ hist'.fails > hist.fails) =>
          /\ lp' = NextMethod(lp)
          /\ pc' = AfterSkip(lp)
          /\ ac'.tildes = <<>>]_vars

\* C12: a transport failure of a request of a branch of the enumeration (the
\* branch probe, the full-part check, the complete-name check or the
\* recursion probe) ends the branch: it makes no further request, emits no
\* result and spawns no child
C12_FailureEndsBranch ==
    [][\A t \in running \ running' :
          (t.pc \in {"probe", "full", "complete", "deeper"} /\ hist'.fails > hist.fails) =>
              /\ \A t2 \in running' \ running : t2.pc = "exit"
              /\ waiting' = waiting /\ wg' = wg
              /\ out' = out]_vars

\* C13: neither fetch nor Scan ends the process: an invalid custom header or
\* a request that cannot be built, in fetch, and a URL that does not parse
\* or a server that cannot be reached at the preflight, in Scan, never lead
\* to an exit
C13_NeverExits == pc # "fatal" /\ ft.pc # "fatal"

\* the stem of a short name: what is in front of its tilde
AliasStem(a) == SubSeq(a, 1, (CHOOSE j \in DOMAIN a : a[j] = "~") - 1)

\* the extension of a short name: what follows the dot after its tilde digit
AliasExt(a) == SubSeq(a, (CHOOSE j \in DOMAIN a : a[j] = "~") + 3, Len(a))

\* C14: after character discovery, for each committed tilde, every
\* character of the configured pool that occurs in the stem (in the
\* extension) of an existing short name with that tilde is in the tilde's
\* fileChars (extChars)
C14_CharsSuperset ==
    pc \in {"enum", "wait", "prepend"} =>
        \A t \in Range(ac.tildes) : \A a \in ServerDir(Fx.srv, url).aliases :
            TildeStr(0)[1] = t[1] /\ TildeOf(a) = t[2] =>
                \A c \in Range(args.Characters) :
                    /\ c \in Range(AliasStem(a)) => c \in Range(ac.fileChars[t])
                    /\ c \in Range(AliasExt(a)) => c \in Range(ac.extChars[t])

\* the file of claim C15: secrets.txt, with the 8.3 form SECRET / TXT in the
\* wordlist, answered 200, and 404 for a random URL that ends in .txt
SecretsTxtPath == CandPath(SecretsTxt)

C15_SecretsCase ==
    /\ args.Autocomplete = "status" /\ hist.fails = 0
    /\ SecretsTxt \in Range(Fx.wordlist.wordlist)
    /\ {r.status : r \in Respond(Fx.srv, Request("GET", url, SecretsTxtPath, ""))} = {200}
    /\ {r.status : r \in Respond(Fx.srv, Request("GET", url, RandPath(SecretsTxt.extension), ""))}
          = {404}

\* C15: in status mode a candidate is confirmed iff the status of the GET
\* for it is none of the statuses cached for its extension, which were
\* sampled from random URLs with that extension; and in the case of
\* secrets.txt the result emitted for SECRET~1.TXT has the full name
\* secrets.txt
C15_StatusMode ==
    /\ [][\A t \in running \ running' : \A t2 \in running' \ running :
             (args.Autocomplete = "status" /\ t.pc \in {"verify", "sample"}
                /\ t2.pc # "sample") =>
                 LET path == CandPath(t.fnc[t.ci])
                     hit  == t.res.status
                               \notin CacheGet(statusCache', t.fnc[t.ci].extension)
                 IN  /\ (t2.fnr = path) <=> hit
                     /\ (path \in ac'.foundFiles) <=> hit]_vars
    /\ [](\A e \in DOMAIN statusCache :
             statusCache[e] \subseteq
                 {r.status : r \in UNION {Respond(Fx.srv, Request("GET", u, RandPath(e), "")) :
                                            u \in Range(hist.order)}})
    /\ [](C15_SecretsCase =>
             \A r \in Results :
                 (r.url = url /\ IsSecretResult(r)) => r.fullname = SecretsTxtPath)

\* the result for SECRET~1.TXT with the full name secrets.txt, confirmed
\* against the statuses sampled for .txt after the candidate secret.txt,
\* answered 404, was not
C15_Witness ==
    /\ C15_SecretsCase
    /\ CacheGet(statusCache, SecretsTxt.extension) = {404}
    /\ ac.foundFiles = {SecretsTxtPath}
    /\ \E t \in running : t.fnc = <<SecretTxt, SecretsTxt>> /\ t.ci = 2 /\ t.pc = "deeper"
    /\ \E r \in Results : r.url = url /\ IsSecretResult(r) /\ r.fullname = SecretsTxtPath

\* C16: with autocomplete=auto, the mode in use while a URL is scanned is
\* method if the server of that URL answers 405 to the method _ at the base
\* URL, and status otherwise
C16_ModePerUrl ==
    (Fx.args.Autocomplete = "auto"
       /\ pc \in {"neg", "pos", "dis", "commit", "status", "chars", "enum", "wait", "prepend"}) =>
        args.Autocomplete =
            IF \A r \in Respond(Fx.srv, Request("_", url, <<>>, "")) : r.status = 405
            THEN "method" ELSE "status"

\* the URLs whose scan is over
Scanned ==
    {hist.order[i] : i \in 1..(IF pc \in {"pop", "done"} THEN Len(hist.order)
                                                         ELSE Len(hist.order) - 1)}

\* C17: with isvuln set no request of character discovery, of the
\* enumeration or of the autocomplete checks is made and no result is
\* emitted, for a URL that is vulnerable as for one that is not, and the
\* status event of every URL scanned is emitted
C17_VulnCheckOnly ==
    args.IsVuln =>
        /\ pc \notin {"chars", "enum", "wait", "prepend"}
        /\ hist.reqs \subseteq {"preflight", "auto", "neg", "pos", "dis"}
        /\ waiting = <<>> /\ running = {}
        /\ Results = {}
        /\ \A u \in Scanned :
              StatusEvent(u, ServerDir(Fx.srv, u).aliases # {}) \in out

\* the vulnerability check of a vulnerable URL and of one that is not
C17_Witness ==
    /\ args.IsVuln /\ pc = "done"
    /\ \E u \in Scanned : StatusEvent(u, TRUE) \in out
    /\ \E u \in Scanned : StatusEvent(u, FALSE) \in out
    /\ {e.url : e \in out} = Scanned

\* C18: when norecurse is set or autocomplete is none, no HEAD request is
\* made, foundDirectories stays empty, and the queue holds, and the scan
\* visits, none but the URLs the user gave
C18_NoRecursion ==
    (args.NoRecurse \/ args.Autocomplete = "none") =>
        /\ "head" \notin hist.reqs
        /\ \A t \in running : t.pc # "head"
        /\ ac.foundDirectories = {}
        /\ hist.found = {}
        /\ \E n \in 0..Len(Fx.args.Urls) :
              urls = SubSeq(Fx.args.Urls, n + 1, Len(Fx.args.Urls))
        /\ Range(hist.order) \subseteq {Normalise(u) : u \in Range(Fx.args.Urls)}

\* with norecurse the scan is over and confirmed the name of a directory
C18_Witness ==
    /\ args.NoRecurse /\ pc = "done"
    /\ \E r \in Results :
          /\ r.fullname \in ServerDir(Fx.srv, r.url).dirnames
          /\ r.fullname \in ac.foundFiles
    /\ hist.order = <<Normalise(Fx.args.Urls[1])>>

\* the URL given to Scan that is being scanned, in SpecUrl
InputUrl == args.Urls[1]

RECURSIVE TrimSlashes(_)
TrimSlashes(u) ==
    IF u # <<>> /\ u[Len(u)] = "/" THEN TrimSlashes(SubSeq(u, 1, Len(u) - 1)) ELSE u

Https == <<"h","t","t","p","s",":","/","/">>

\* C19: for every URL given to Scan, the URL that is scanned ends in exactly
\* one slash, and it has https:// put in front of it iff the URL given
\* contains no ://
C19_UrlNormalised ==
    pc = "preflight" =>
        /\ HasSuffix(url, <<"/">>) /\ ~HasSuffix(url, <<"/","/">>)
        /\ IF Contains(InputUrl, <<":","/","/">>)
           THEN HasPrefix(url, TrimSlashes(InputUrl)) /\ Len(url) <= Len(InputUrl) + 1
           ELSE HasPrefix(url, Https \o TrimSlashes(InputUrl))

\* the first line of a file that is not blank, the empty line when all are
FirstNonBlank(file) ==
    IF \A i \in DOMAIN file : file[i] = <<>> THEN <<>>
    ELSE file[CHOOSE i \in DOMAIN file :
                  file[i] # <<>> /\ \A j \in 1..(i - 1) : file[j] = <<>>]

\* C20: a wordlist file is taken for a rainbow table, its lines read as
\* five fields with tabs between them, iff its first line that is not blank
\* equals #SHORTSCAN#
C20_RainbowIffMagicFirst ==
    ld.pc \in {"loaded", "fatal"} =>
        (ld.isRainbow <=> FirstNonBlank(ld.file) = rainbowMagic)


\* the algorithm of the primary checksum, by arithmetic on numbers: the
\* accumulator; the absolute value of the signed 32-bit product with
\* 314159269 = 4793 * 2^16 + 45221, from its two halves; the reduction, for
\* which (t * 1152921497) >> 60 is the quotient of t by 1000000007 when
\* 0 <= t < 2^31; the nibbles of the low 16 bits in reverse; four hex digits
PrimaryChecksum(f) ==
    LET RECURSIVE acc(_, _)
        acc(ck, i) == IF i > Len(f) THEN ck
                      ELSE acc((ck * 37 + CodePoint(f[i])) % 65536, i + 1)
        ck == acc(0, 1)
        a  == (ck % 256) * 45221
        b  == (ck \div 256) * 45221
        lo == (a % 65536) + (b % 256) * 256
        hi == ((a \div 65536) + (b \div 256) + (lo \div 65536) + ck * 4793) % 65536
        l  == lo % 65536
        t  == IF hi < 32768 THEN hi * 65536 + l
              ELSE IF l = 0 THEN (65536 - hi) * 65536
              ELSE (65535 - hi) * 65536 + (65536 - l)
        r  == (t - (t \div 1000000007) * 1000000007) % 65536
        n(k) == (r \div (16 ^ k)) % 16
        hex(d) == <<"0","1","2","3","4","5","6","7","8","9","A","B","C","D","E","F">>[d + 1]
    IN  <<hex(n(0)), hex(n(1)), hex(n(2)), hex(n(3))>>

\* C21 (as stated): Checksum(f) is the primary algorithm for every input,
\* with Checksum("index.html") = "5AC9" and Checksum("") = "0000"
C21_ChecksumGolden5AC9 ==
    (ut.pc = "exit" /\ ~ut.Original) =>
        /\ ut.stdout = <<PrimaryChecksum(ut.Filename)>>
        /\ ut.Filename = IndexHtml => ut.stdout = << <<"5","A","C","9">> >>
        /\ ut.Filename = <<>> => ut.stdout = << <<"0","0","0","0">> >>

\* C21 (amended): Checksum(f) is the primary algorithm for every input, and
\* that algorithm gives Checksum("index.html") = "2EF5" and
\* Checksum("") = "0000"
C21_ChecksumPrimary ==
    (ut.pc = "exit" /\ ~ut.Original) =>
        /\ ut.stdout = <<PrimaryChecksum(ut.Filename)>>
        /\ ut.Filename = IndexHtml => ut.stdout = << <<"2","E","F","5">> >>
        /\ ut.Filename = <<>> => ut.stdout = << <<"0","0","0","0">> >>

C21_Witness == ut.pc = "exit" /\ ~ut.Original /\ ut.Filename = IndexHtml

\* C22 (as stated): shortutil checksum -o AB prints exactly "0F41"
C22_OriginalGolden0F41 ==
    (ut.pc = "exit" /\ ut.Original /\ ut.Filename = <<"A","B">>) =>
        ut.stdout = << <<"0","F","4","1">> >>

\* C22 (amended): shortutil checksum -o AB prints exactly "2414", the
\* bytes 0x41 0x42 with their four nibbles in reverse order
C22_OriginalAB ==
    (ut.pc = "exit" /\ ut.Original /\ ut.Filename = <<"A","B">>) =>
        ut.stdout = << <<"2","4","1","4">> >>

C22_Witness == ut.pc = "exit" /\ ut.Original /\ ut.Filename = <<"A","B">>


\* an 8.3 part as the claim words it: upper-cased, without spaces and dots,
\* the seven special characters as underscores
Cleaned(str) ==
    LET up   == ToUpper(str)
        kept == SelectSeq(up, LAMBDA c : c \notin {" ", "."})
    IN  [i \in DOMAIN kept |->
            IF kept[i] \in {":", "+", ",", ";", "=", "[", "]"} THEN "_" ELSE kept[i]]

\* the first n characters of a string, or all of it when it has fewer
Cut(str, n) == [i \in 1..(IF Len(str) < n THEN Len(str) ELSE n) |-> str[i]]

\* C23: Gen8dot3 returns the cleaned stem cut to 6 characters at most and
\* the cleaned extension cut to 3 at most, and wasShortened is true exactly
\* when the file is longer than 8, the extension longer than 3, or cleaning
\* changed an upper-cased part; ("SHORT", "txt") gives (false, "SHORT", "TXT")
C23_Gen8dot3 ==
    ut.pc = "returned" =>
        /\ ut.ret.f83 = Cut(Cleaned(ut.file), 6)
        /\ ut.ret.e83 = Cut(Cleaned(ut.ext), 3)
        /\ Len(ut.ret.f83) <= 6 /\ Len(ut.ret.e83) <= 3
        /\ ut.ret.r <=> \/ Len(ut.file) > 8
                        \/ Len(ut.ext) > 3
                        \/ Cleaned(ut.file) # ToUpper(ut.file)
                        \/ Cleaned(ut.ext) # ToUpper(ut.ext)
        /\ (ut.file = <<"S","H","O","R","T">> /\ ut.ext = <<"t","x","t">>) =>
              ut.ret = [r |-> FALSE, f83 |-> <<"S","H","O","R","T">>,
                        e83 |-> <<"T","X","T">>]

C23_Witness ==
    /\ ut.pc = "returned" /\ ut.ret.r
    /\ Len(ut.file) <= 8 /\ Len(ut.ext) <= 3
    /\ ut.file = <<"a", ".">> /\ ut.ext = <<"a","=","b">>

\* C24 (as stated): Gen8dot3("PROGRA.M FILES", "htm") returns
\* (true, "PROGRAM", "HTM"), and the stem for ("a:b+c,d;e=f[g]h", "") is
\* "A_B_C_D"
C24_SevenCharacterStems ==
    ut.pc = "returned" =>
        /\ (ut.file = ProgramFiles /\ ut.ext = <<"h","t","m">>) =>
              ut.ret = [r |-> TRUE, f83 |-> <<"P","R","O","G","R","A","M">>,
                        e83 |-> <<"H","T","M">>]
        /\ (ut.file = SpecialSeven /\ ut.ext = <<>>) =>
              ut.ret.f83 = <<"A","_","B","_","C","_","D">>

\* C24 (amended): Gen8dot3("PROGRA.M FILES", "htm") returns
\* (true, "PROGRA", "HTM"), and the stem for ("a:b+c,d;e=f[g]h", "") is
\* "A_B_C_": both stems are cut to 6 characters
C24_SixCharacterStems ==
    ut.pc = "returned" =>
        /\ (ut.file = ProgramFiles /\ ut.ext = <<"h","t","m">>) =>
              ut.ret = [r |-> TRUE, f83 |-> <<"P","R","O","G","R","A">>,
                        e83 |-> <<"H","T","M">>]
        /\ (ut.file = SpecialSeven /\ ut.ext = <<>>) =>
              ut.ret.f83 = <<"A","_","B","_","C","_">>

C24_Witness == ut.pc = "returned" /\ ut.file = SpecialSeven /\ ut.ext = <<>>


\* the classic edit distance with unit costs: the least number of
\* insertions, deletions and substitutions of one character that turn the
\* first i characters of a into the first j characters of b
EditDistance(a, b) ==
    LET lev[i \in 0..Len(a), j \in 0..Len(b)] ==
            IF i = 0 THEN j
            ELSE IF j = 0 THEN i
            ELSE LET del == lev[i - 1, j] + 1
                     ins == lev[i, j - 1] + 1
                     sub == lev[i - 1, j - 1] + (IF a[i] = b[j] THEN 0 ELSE 1)
                 IN  IF del <= ins /\ del <= sub THEN del
                     ELSE IF ins <= sub THEN ins ELSE sub
    IN  lev[Len(a), Len(b)]

\* C25: Distance(a, b) is the classic unit-cost edit distance, with
\* Distance("kitten", "sitting") = 3, Distance("", x) = |x| and
\* Distance(a, b) = Distance(b, a)
C25_EditDistance ==
    (ut.pc = "returned" /\ ut.ret \in Int) =>
        /\ ut.ret = EditDistance(ut.a, ut.b)
        /\ (ut.a = Kitten /\ ut.b = Sitting) => ut.ret = 3
        /\ ut.a = <<>> => ut.ret = Len(ut.b)
        /\ ut.ret = Distance(ut.b, ut.a)

C25_Witness ==
    ut.pc = "returned" /\ ut.a = <<"a","b","a">> /\ ut.b = <<"b","a","b">> /\ ut.ret = 2


\* the groups that re-checksumming a loaded record yields: the checksums of
\* its filename and extension as loaded, in lower case, in upper case and
\* in title case
Rechecksummed(rec) ==
    LET name == rec.filename \o rec.extension
    IN  {Checksum(name), Checksum(ToLower(name)), Checksum(ToUpper(name)),
         Checksum(Title(name))}

\* C26: every record that shortutil wordlist emits with the default options
\* and that the loader of rainbow tables then loads has, in its checksums
\* field, exactly the groups that re-checksumming its filename and
\* extension yields
C26_RoundTrip ==
    (ld.pc = "loaded" /\ ~ut.KeepCase /\ ut.Uniq /\ ut.Variants) =>
        \A k \in DOMAIN ld.wordlist :
            Groups(ld.wordlist[k].checksums) = Rechecksummed(ld.wordlist[k])


\* C27: the sampling requests for an extension are issued at most once in
\* a run: in status mode at most 2 of them, or 12 with stabilise, and in
\* distance mode at most 4, or 24 with stabilise, whatever the number of
\* candidates and URLs
C27_SampledOnce ==
    \A e \in DOMAIN hist.samples :
        /\ args.Autocomplete = "status" =>
              hist.samples[e] <= (IF args.Stabilise THEN 12 ELSE 2)
        /\ args.Autocomplete = "distance" =>
              hist.samples[e] <= (IF args.Stabilise THEN 24 ELSE 4)


\* the pairs of suffix and method, by their places in the two lists, in
\* suffix-major order: every method under the first suffix, then every
\* method under the second, and so on
SuffixMajor(suffixes, methods) ==
    [k \in 1..(suffixes * methods) |->
        <<((k - 1) \div methods) + 1, ((k - 1) % methods) + 1>>]

\* C28: the pairs probed for a URL are a beginning of the suffix-major
\* order of the first 4 suffixes and 9 methods with patience 0, of all 7
\* suffixes and all 40 methods with patience 1; once a tilde is accepted
\* under a pair no other pair is probed for the URL, and that pair is the
\* one committed
C28_ProbeOrder ==
    /\ [](Len(pathSuffixes) = 7 /\ Len(httpMethods) = 40)
    /\ []LET order == IF args.Patience = 1 THEN SuffixMajor(7, 40)
                      ELSE SuffixMajor(4, 9)
         IN  /\ Len(hist.pairs) <= Len(order)
             /\ hist.pairs = SubSeq(order, 1, Len(hist.pairs))
    /\ [](ac.method # "" =>
             /\ Len(ac.tildes) > 0 /\ hist.pairs # <<>>
             /\ ac.suffix = pathSuffixes[hist.pairs[Len(hist.pairs)][1]]
             /\ ac.method = httpMethods[hist.pairs[Len(hist.pairs)][2]])
    /\ [][(Len(ac.tildes) > 0 /\ hist'.scan = hist.scan) => hist'.pairs = hist.pairs]_vars

C28_Witness ==
    /\ fx = "asmx" /\ pc = "done"
    /\ hist.pairs = SubSeq(SuffixMajor(7, 40), 1, 210)
    /\ ac.suffix = "/.asmx" /\ ac.method = "ACL"


\* whether, in a slot of a name, each of the two places behind a percent
\* sign holds a question mark or is empty
PercentSkipped(slot) ==
    \A i \in DOMAIN slot :
        slot[i] = "%" => \A j \in (i + 1)..(i + 2) : j <= Len(slot) => slot[j] = "?"

\* C29: in the stem and in the extension alike, the characters that follow
\* a percent sign are question marks appended with it: no goroutine
\* enumerates a character in the two places behind a percent sign
C29_PercentSkipped ==
    \A t \in running : PercentSkipped(t.br.file) /\ PercentSkipped(t.br.ext)


\* whether a hit was emitted for the branch
HitEmitted(br) ==
    \E x \in out : /\ x.type = "result" /\ x.url = br.url /\ x.file = br.file
                   /\ x.tilde = br.tilde /\ x.ext = br.ext

\* whether the slot of the branch is below its cap: the stem shorter than
\* 6 characters, or the extension shorter than 4 with its dot
BelowCap(br) == IF Len(br.ext) > 0 THEN Len(br.ext) < 4 ELSE Len(br.file) < 6

\* C30: a goroutine that has emitted a hit for a branch below its cap goes
\* on to issue the recursion probe for the branch, and a goroutine is
\* started under the same prefix for each character of the pool exactly
\* when the probe's status is not statusNeg; so when a short name is found
\* whose stem is the beginning of the stem of another short name with the
\* same tilde, the other is found as well
C30_RecursionAfterHit ==
    /\ [][\A t \in running :
            (t.pc = "deeper" /\ t \notin running' /\ HitEmitted(t.br) /\ BelowCap(t.br)) =>
                \E p \in hist'.deeper \ hist.deeper :
                    /\ p.br = t.br
                    /\ LET pool == IF Len(t.br.ext) > 0 THEN ac.extChars[t.br.tilde]
                                   ELSE ac.fileChars[t.br.tilde]
                           new  == SubSeq(waiting', Len(waiting) + 1, Len(waiting'))
                       IN  IF ~p.err /\ p.status # mk.statusNeg
                           THEN /\ Len(new) = Len(pool)
                                /\ \A k \in DOMAIN new :
                                      new[k].br = t.br /\ new[k].char = <<pool[k]>>
                           ELSE new = <<>>]_vars
    /\ []((pc = "done" /\ hist.fails = 0) =>
             \A x \in out : \A a \in UNION {Fx.srv.dirs[u].aliases : u \in DOMAIN Fx.srv.dirs} :
                 (/\ x.type = "result" /\ x.ext = <<>>
                  /\ x.url \in DOMAIN Fx.srv.dirs /\ a \in Fx.srv.dirs[x.url].aliases
                  /\ AliasExt(a) = <<>>
                  /\ a[Len(AliasStem(a)) + 2] = x.tilde[2]
                  /\ Len(x.file) < Len(AliasStem(a))
                  /\ SubSeq(AliasStem(a), 1, Len(x.file)) = x.file
                  /\ \A j \in DOMAIN AliasStem(a) : AliasStem(a)[j] \in Range(args.Characters)) =>
                     \E y \in out : /\ y.type = "result" /\ y.url = x.url
                                    /\ y.file = AliasStem(a) /\ y.tilde = x.tilde)

C30_Witness ==
    /\ fx = "nested" /\ pc = "done"
    /\ \E x, y \in out : /\ x.type = "result" /\ x.file = <<"A">> /\ x.ext = <<>>
                         /\ y.type = "result" /\ y.file = <<"A","B">> /\ y.ext = <<>>
    /\ \E p \in hist.deeper : p.br.file = <<"A">> /\ p.br.ext = <<>> /\ ~p.err


HexDigits == {"0","1","2","3","4","5","6","7","8","9","A","B","C","D","E","F"}

\* a prefix of 1 or 2 characters followed by exactly four upper-case hex
\* characters
ChecksummedStem(f) ==
    /\ Len(f) \in {5, 6}
    /\ \A j \in (Len(f) - 3)..Len(f) : f[j] \in HexDigits

\* whether the record is a candidate for the branch: one of its
\* 4-character checksum groups is the 4-character suffix of the stem, its
\* upper-cased filename starts with the rest of the stem and its upper-cased
\* extension starts with the extension of the branch
ChecksumCandidate(br, rec) ==
    LET n   == Len(br.file)
        sum == SubSeq(br.file, n - 3, n)
        pre == SubSeq(br.file, 1, n - 4)
    IN  /\ \E i \in 0..((Len(rec.checksums) \div 4) - 1) :
              SubSeq(rec.checksums, 4 * i + 1, 4 * i + 4) = sum
        /\ Len(rec.filename) >= Len(pre)
        /\ ToUpper(SubSeq(rec.filename, 1, Len(pre))) = pre
        /\ Len(rec.extension) >= Len(br.ext)
        /\ ToUpper(SubSeq(rec.extension, 1, Len(br.ext))) = br.ext

\* C31: whenever dechecksum runs on a hit the stem of the branch is a
\* prefix of 1 or 2 characters followed by four upper-case hex characters,
\* and once the walk has delivered every record the candidates are the
\* records with a checksum group equal to that suffix, a filename that
\* starts with the prefix and an extension that starts with br.ext
C31_Dechecksum ==
    \A t \in running :
        t.pc = "dechk" =>
            /\ ChecksummedStem(t.br.file)
            /\ (t.w.ch = <<>> /\ t.w.closed) =>
                  {Key(r) : r \in t.fs} =
                     {Key(Fx.wordlist.wordlist[k]) :
                         k \in {j \in DOMAIN Fx.wordlist.wordlist :
                                   ChecksumCandidate(t.br, Fx.wordlist.wordlist[j])}}


\* C32: the candidates of a hit, those of dechecksum followed by those of
\* the wordlist match, hold no two records with the same filename and
\* extension, and no candidate name is requested twice for one hit
C32_CandidatesDistinct ==
    /\ \A t \in running : \A i, j \in DOMAIN t.fnc :
          Key(t.fnc[i]) = Key(t.fnc[j]) => i = j
    /\ \A i, j \in DOMAIN hist.checks : hist.checks[i] = hist.checks[j] => i = j


\* the candidate's body distance ratio exceeds the ratio stored for its
\* status by more than 0.10
ExceedsStored(dists, res) ==
    /\ res.status \in DOMAIN dists
    /\ LET d == dists[res.status]
           x == DistanceOf(d.body, ReadBody(res.body))
       IN  10 * x.num * d.distance.den >
               10 * d.distance.num * x.den + x.den * d.distance.den

\* C33: in distance mode a candidate is confirmed on its status alone only
\* when no sampling response for its extension had that status; when the
\* status was seen in sampling it is confirmed only if its distance ratio
\* exceeds the stored ratio for the status by more than 0.10
C33_StatusAloneOnlyUnseen ==
    [][\A t \in running :
          (/\ t.pc = "dreturn" /\ t \notin running'
           /\ CandPath(t.fnc[t.ci]) \in ac'.foundFiles \ ac.foundFiles
           /\ t.res.status \in CacheGet(hist.seen, t.fnc[t.ci].extension)) =>
              ExceedsStored(t.dists, t.res)]_vars


\* a stem of at most 6 characters and an extension that is empty or a dot
\* followed by at most 3 characters
WithinDepth(file, ext) ==
    /\ Len(file) <= 6
    /\ ext = <<>> \/ (ext[1] = "." /\ Len(ext) - 1 <= 3)

\* C34: every base request of an enumeration goroutine, started or about
\* to start, and every result emitted has a stem of at most 6 characters
\* and an extension that is empty or a dot and at most 3 characters
C34_DepthBounded ==
    /\ \A t \in running \cup Range(waiting) : WithinDepth(t.br.file, t.br.ext)
    /\ \A x \in out : x.type = "result" => WithinDepth(x.file, x.ext)

C34_Witness ==
    /\ fx = "deep"
    /\ \E x \in out : /\ x.type = "result"
                      /\ x.file = <<"%","?","?","A","%","A">>
                      /\ Len(x.ext) = 4


\* the place of the last dot of the line, counted from 0, or -1
LastDot(line) ==
    IF \E i \in DOMAIN line : line[i] = "."
    THEN (CHOOSE i \in DOMAIN line :
             line[i] = "." /\ \A j \in DOMAIN line : line[j] = "." => j <= i) - 1
    ELSE -1

\* the record of a line split at its last dot when that dot is not at
\* index 0, and kept whole otherwise
SplitAtLastDot(line) ==
    LET p == LastDot(line)
        f == IF p > 0 THEN SubSeq(line, 1, p) ELSE line
        e == IF p > 0 THEN SubSeq(line, p + 1, Len(line)) ELSE <<>>
    IN  Record(<<>>, f, e, Gen8dot3(f, e).f83, Gen8dot3(f, e).e83)

\* C35: the record of a line of a plain wordlist has the stem and the
\* extension, with its dot, of the line split at its last dot whenever
\* that dot is not at index 0, the whole line and an empty extension when
\* there is no dot or the last dot is at index 0, and the 8.3 fields that
\* Gen8dot3 gives for the two parts
C35_SplitAtLastDot ==
    [][(/\ ld.pc = "read" /\ ~ld'.isRainbow
        /\ Len(ld'.wordlist) = Len(ld.wordlist) + 1) =>
           ld'.wordlist[Len(ld'.wordlist)] = SplitAtLastDot(ld.file[ld.i])]_vars


\* C36: two walks of the wordlist never interleave, as the lock of the
\* store is held for the whole of a pass; what a walk has delivered, the
\* records received and those in its channel, is at any time a beginning
\* of the wordlist, and the whole wordlist when the channel is closed; and
\* every walk that was started completes, also when the wordlist has more
\* records than the channel holds
C36_WalksDoNotInterleave ==
    /\ [](\A t1, t2 \in running :
             (t1.w.st = "send" /\ t2.w.st = "send") => t1 = t2)
    /\ []((\E t \in running : t.w.st = "send") => locks.wordlist)
    /\ [](\A t \in running :
             t.w.st # "none" =>
                LET n == Len(t.w.got) + Len(t.w.ch)
                IN  /\ n <= Len(Fx.wordlist.wordlist)
                    /\ t.w.got \o t.w.ch = SubSeq(Fx.wordlist.wordlist, 1, n)
                    /\ t.w.closed => n = Len(Fx.wordlist.wordlist))
    /\ (\E t \in running : t.w.st # "none") ~> (\A t \in running : t.w.st = "none")

C36_Witness ==
    /\ Len(Fx.wordlist.wordlist) > ChanCap
    /\ \E t1, t2 \in running :
          /\ t1.w.st = "send" /\ Len(t1.w.ch) = ChanCap
          /\ t2.w.st = "lock"


\* C37: while a committed tilde is enumerated, the positive status of the
\* markers is the status the server gave to the tilde's own request of the
\* vulnerability probe
C37_OwnPositiveStatus ==
    \A t \in running \cup Range(waiting) :
        /\ t.br.tilde \in DOMAIN hist.tstatus
        /\ mk.statusPos = hist.tstatus[t.br.tilde]


\* C38: the wait for a URL returns only when no goroutine of its
\* enumeration is running or waiting to run, as every goroutine is counted
\* in the wait-group from the moment it is started; once it has returned
\* no result is emitted and the found files and directories of the URL
\* stay as they are; and the directories then put in front of the queue
\* are all the directories found
C38_WaitReturnsLast ==
    /\ [](pc = "wait" => wg = Cardinality(running) + Len(waiting))
    /\ [](pc # "wait" => (running = {} /\ waiting = <<>>))
    /\ [][pc # "wait" => Results' = Results]_vars
    /\ [][pc = "prepend" =>
            /\ ac'.foundFiles = ac.foundFiles
            /\ ac'.foundDirectories = ac.foundDirectories
            /\ Len(urls') = Len(urls) + Cardinality(ac.foundDirectories)
            /\ {urls'[i] : i \in 1..Cardinality(ac.foundDirectories)} =
                  {url \o d \o <<"/">> : d \in ac.foundDirectories}
            /\ SubSeq(urls', Cardinality(ac.foundDirectories) + 1, Len(urls')) = urls]_vars

C38_Witness ==
    /\ pc = "prepend"
    /\ Cardinality(ac.foundDirectories) = 2
    /\ Results # {}


\* C39: every record of a rainbow table that the loader has accepted has a
\* checksums field whose length is a multiple of 4, so that each of the
\* slices checksums[i : i+4], for i = 0, 4, 8, ... below the length, that
\* dechecksum reads ends within the field
C39_GroupsInRange ==
    (ld.isRainbow /\ ld.pc \in {"read", "loaded"}) =>
        \A k \in DOMAIN ld.wordlist :
            LET n == Len(ld.wordlist[k].checksums)
            IN  /\ n % 4 = 0
                /\ \A i \in {j \in 0..n : j % 4 = 0 /\ j < n} : i + 4 <= n

====
